---- MODULE Spec2Model ----
(***************************************************************************)
(* Model of the EWF (E01) container reader of laenix/ewfgo: the top-level  *)
(* EWFImage of ewf.go (section scanner, table parsing, chunk lookup, chunk *)
(* cache, sector reads).                                                   *)
(*                                                                         *)
(* A segment file is a record: its size, the section descriptors it holds  *)
(* (keyed by file offset), the body of its volume section and the bodies   *)
(* of its table sections.  Bytes of the sectors bodies are given by        *)
(* FileByte.  Offsets and sizes are the real byte quantities of the code   *)
(* (76-byte descriptors, 24-byte table headers, 16-byte table entries);    *)
(* the disk geometry is small (2-byte sectors, 2 sectors per chunk), which *)
(* ParseVolume accepts.                                                    *)
(***************************************************************************)
EXTENDS Integers, Sequences, FiniteSets, TLC

VARIABLES
    file,              \* the segment file on disk (never written)
    fh,                \* e.file: "nil", "open" or "closed"
    posZero,           \* TRUE while the handle's read position is offset 0
    initialized,       \* e.initialized
    Sections,          \* e.Sections: offsets of the descriptors appended
    Tables,            \* e.Tables
    Tables2,           \* e.Tables2
    DiskInfo,          \* e.DiskInfo (NoDisk while nil)
    chunkCache,        \* e.chunkCache: chunk number -> decoded bytes
    pc,                \* position of the running Parse: "idle", "loop", "check", "panic"
    caller,            \* who started the running / last Parse: "none", "Parse", "Initialize"
    section,           \* Parse local: the descriptor read last
    processedOffsets,  \* Parse local
    lastOffset,        \* Parse local
    foundDiskInfo,     \* Parse local
    foundDone,         \* Parse local
    parseResult,       \* outcome of the last Parse: "none", "ok", "err"
    parses,            \* number of Parse runs started
    readLog,           \* history: offsets handed to ReadSection by the running / last Parse
    last,              \* outcome of the last sector-reader call since the last Parse
    run,               \* a trace of chunk accesses run on caches of two capacities
    conc,              \* goroutines inside ReadSector, e.fileMutex, the handle's position
    probe,             \* one call of the filesystem package: its input, the call, its result
    fat,               \* a FAT32 volume, its directory and file objects, the running call
    extscan,           \* an EXT directory and the scan of its records that is running
    internal           \* internal.EWFImage: e.Sections and the running ReadSections

vars == <<file, fh, posZero, initialized, Sections, Tables, Tables2, DiskInfo,
          chunkCache, pc, caller, section, processedOffsets, lastOffset,
          foundDiskInfo, foundDone, parseResult, parses, readLog, last, run, conc, probe,
          fat, extscan, internal>>

\* What the operations of one image leave alone.
otherVars == <<run, conc, probe, fat, extscan, internal>>

\* The variables of one image, which the filesystem package leaves alone.
imageVars == <<file, fh, posZero, initialized, Sections, Tables, Tables2, DiskInfo,
               chunkCache, pc, caller, section, processedOffsets, lastOffset,
               foundDiskInfo, foundDone, parseResult, parses, readLog, last>>

(***************************************************************************)
(* Bounds of the model.                                                    *)
(***************************************************************************)
MaxEntries == 2      \* entries of one table section
MaxParses == 1       \* Parse / Initialize calls on one image
MaxSector == 3       \* highest sector number (and byte offset) passed to a read
MaxCount == 1        \* highest sector count passed to ReadSectors
MaxCacheSize == 1    \* cache capacity (1024 in ewf.go:266, scaled down)
WordModulus == 1073741824  \* uint64 arithmetic wraps here (2^64 in the code, scaled down)

(***************************************************************************)
(* Constants of the format, as the code uses them.                         *)
(***************************************************************************)
FileHeaderLength == 13
SectionLength == 76
TableHeaderLength == 24
TableEntryLength == 16
DiskSMARTLength == 1064
DiskKeyFieldsLength == 24
MaxChunkSize == 1073741824
MaxSectorBytes == 8192
MaxChunkSectors == 65536
DefaultSectorBytes == 512
DefaultChunkSectors == 64
ZlibMagic == 120
ChunkIsCompressed == 1

KnownSectionTypes ==
    {"header", "header2", "disk", "volume", "table", "table2",
     "sectors", "next", "data", "error2", "digest", "hash", "done"}

Min(a, b) == IF a < b THEN a ELSE b

NoDisk == [nil |-> TRUE]
NoSection == [type |-> "", next |-> 0, size |-> 0]

(***************************************************************************)
(* The segment files the model reads.  Layout is a well-formed segment:    *)
(* header, header2, volume, sectors, table, table2, sectors, table, done,  *)
(* each section linked to the next, done linked to itself.  Every other    *)
(* file of the model is Layout with one field changed.                     *)
(***************************************************************************)
Layout ==
    [header   |-> [off |-> 13,   type |-> "header",  size |-> 96,  next |-> 109],
     header2  |-> [off |-> 109,  type |-> "header2", size |-> 96,  next |-> 205],
     volume   |-> [off |-> 205,  type |-> "volume",  size |-> 170, next |-> 375],
     sectors1 |-> [off |-> 375,  type |-> "sectors", size |-> 100, next |-> 475],
     table1   |-> [off |-> 475,  type |-> "table",   size |-> 164, next |-> 639],
     table2   |-> [off |-> 639,  type |-> "table2",  size |-> 164, next |-> 803],
     sectors2 |-> [off |-> 803,  type |-> "sectors", size |-> 100, next |-> 903],
     table3   |-> [off |-> 903,  type |-> "table",   size |-> 164, next |-> 1067],
     done     |-> [off |-> 1067, type |-> "done",    size |-> 76,  next |-> 1067]]

SectionNames == DOMAIN Layout
FullSize == Layout.done.off + Layout.done.size

\* Byte p of the file; position 451, the first byte of the first sectors
\* body, holds the zlib magic 0x78.
FileByte(p) == (p + 181) % 256

FileBytes(from, n) == [i \in 1..n |-> FileByte(from + i - 1)]

\* Start of the body of a sectors section.
BodyOf(name) == Layout[name].off + SectionLength

\* The table entry of kind k stored at position i (from 0) of a table whose
\* chunks live in the sectors body starting at base.
MakeEntry(k, base, i) ==
    CASE k = "raw"      -> [ChunkOffset |-> base + 4 * i, ChunkSize |-> 4, ChunkFlags |-> 0]
      [] k = "short"    -> [ChunkOffset |-> base + 4 * i, ChunkSize |-> 2, ChunkFlags |-> 0]
      [] k = "zeroSize" -> [ChunkOffset |-> base + 4 * i, ChunkSize |-> 0, ChunkFlags |-> 0]
      [] k = "zeroOff"  -> [ChunkOffset |-> 0, ChunkSize |-> 4, ChunkFlags |-> 0]
      [] k = "past"     -> [ChunkOffset |-> FullSize - 2, ChunkSize |-> 4, ChunkFlags |-> 0]
      [] k = "zip"      -> [ChunkOffset |-> BodyOf("sectors1"), ChunkSize |-> 6,
                            ChunkFlags |-> ChunkIsCompressed]
      [] OTHER          -> [ChunkOffset |-> base + 4 * i + 1, ChunkSize |-> 4,
                            ChunkFlags |-> ChunkIsCompressed]

FaultKinds == {"short", "zeroSize", "zeroOff", "past", "zip", "badzip"}

\* n entry kinds, all "raw" but the one at position p (none when p = 0).
Shape(n, p, k) == [i \in 1..n |-> IF i = p THEN k ELSE "raw"]

TableShapes ==
    {Shape(n, 0, "raw") : n \in 0..MaxEntries}
    \cup {Shape(c[1], c[2], c[3]) :
            c \in {d \in (1..MaxEntries) \X (1..MaxEntries) \X FaultKinds : d[2] <= d[1]}}

RawTable(shape, base) ==
    [EntryNumber |-> Len(shape),
     raw |-> [i \in 1..Len(shape) |-> MakeEntry(shape[i], base, i - 1)]]

\* The body of the volume section: the fields ParseVolume reads.
RawDisk(chunks, variant) ==
    CASE variant = "full"  -> [ChunkCount |-> chunks, ChunkSectors |-> 2, SectorBytes |-> 2,
                               SectorsCount |-> 2 * chunks, Size |-> 0]
      [] variant = "short" -> [ChunkCount |-> chunks, ChunkSectors |-> 2, SectorBytes |-> 2,
                               SectorsCount |-> IF chunks = 0 THEN 0 ELSE 2 * chunks - 1,
                               Size |-> 0]
      [] OTHER             -> [ChunkCount |-> chunks, ChunkSectors |-> 0, SectorBytes |-> 0,
                               SectorsCount |-> 0, Size |-> 0]

\* A file of `size` bytes with descriptors descs (a function on SectionNames),
\* whose first table has shape s1 and the second s3; table2 mirrors the first.
MakeFile(size, descs, s1, s3, variant) ==
    [size |-> size,
     sec  |-> [o \in {descs[n].off : n \in {m \in SectionNames :
                                          descs[m].off + SectionLength <= size}} |->
                 LET n == CHOOSE m \in SectionNames : descs[m].off = o
                 IN  [type |-> descs[n].type, next |-> descs[n].next, size |-> descs[n].size]],
     disk |-> RawDisk(Len(s1) + Len(s3), variant),
     tab  |-> [o \in {Layout.table1.off, Layout.table2.off, Layout.table3.off} |->
                 IF o = Layout.table3.off
                 THEN RawTable(s3, BodyOf("sectors2"))
                 ELSE RawTable(s1, BodyOf("sectors1"))]]

DefaultShape1 == Shape(2, 0, "raw")
DefaultShape3 == Shape(1, 0, "raw")

BaseFile == MakeFile(FullSize, Layout, DefaultShape1, DefaultShape3, "full")

\* Values a corrupted next_offset takes: zero, the first section, a fixed
\* section in the middle (forward for the sections before it, backward for
\* those after it), the section itself, the file size, one past the file size.
NextChoices(n) ==
    {0, FileHeaderLength, Layout.volume.off, Layout[n].off, FullSize, FullSize + 1}

\* Layout with the next_offset of one section replaced.
LinkFaultFiles ==
    {MakeFile(FullSize, [Layout EXCEPT ![c[1]].next = c[2]],
              DefaultShape1, DefaultShape3, "full") :
        c \in {d \in SectionNames \X (0..(FullSize + 1)) : d[2] \in NextChoices(d[1])}}

\* Layout with the type or the size of one section replaced: a type the
\* scanner does not know, a chain that ends in a self-linked "next" section
\* instead of done, a header2 section smaller than its descriptor.
FieldFaultFiles ==
    {MakeFile(FullSize, [Layout EXCEPT ![n].type = "ltree"],
              DefaultShape1, DefaultShape3, "full") : n \in SectionNames}
    \cup {MakeFile(FullSize, [Layout EXCEPT !.done.type = "next"],
                   DefaultShape1, DefaultShape3, "full"),
          MakeFile(FullSize, [Layout EXCEPT !.header2.size = 40],
                   DefaultShape1, DefaultShape3, "full"),
          MakeFile(FullSize, [Layout EXCEPT !.header2.size = 0],
                   DefaultShape1, DefaultShape3, "full")}

\* Layout cut short: inside the second sectors body (the last complete
\* section then links past the end), and inside a descriptor.
TruncatedFiles ==
    {MakeFile(sz, Layout, DefaultShape1, DefaultShape3, "full") :
        sz \in {Layout.table3.off - 13, Layout.sectors2.off + 10, Layout.table1.off + 90,
                FileHeaderLength + 3}}

\* Layout with other table contents: a first table with at most one entry
\* that is not a plain one, a second table of plain entries, the last chunk
\* of the disk whole or one sector short.
TableFiles ==
    {MakeFile(FullSize, Layout, c[1], c[2], c[3]) :
        c \in TableShapes \X {Shape(n, 0, "raw") : n \in 0..MaxEntries}
              \X {"full", "short"}}

\* Layout whose first table section is 40 bytes long (room for one entry by
\* the code's count) while its table2 mirror has room for all of them.
TightTableFiles ==
    {MakeFile(FullSize, [Layout EXCEPT !.table1.size = 40], c[1], c[2], "full") :
        c \in {Shape(n, 0, "raw") : n \in 1..MaxEntries}
              \X {Shape(n, 0, "raw") : n \in 0..MaxEntries}}

\* Layout whose volume section holds zeros for the geometry.
ZeroGeometryFile == MakeFile(FullSize, Layout, DefaultShape1, DefaultShape3, "zero")

Files ==
    LinkFaultFiles \cup FieldFaultFiles \cup TruncatedFiles \cup TableFiles
    \cup TightTableFiles \cup {ZeroGeometryFile}

(***************************************************************************)
(* The scanner and the section parsers.                                    *)
(***************************************************************************)

\* ReadSection without its check of the next-section offset.
ReadSectionNoNextCheck(offset) ==
    IF offset < 0 \/ offset >= file.size
    THEN [err |-> TRUE, sec |-> NoSection]
    ELSE IF offset + SectionLength > file.size \/ offset \notin DOMAIN file.sec
    THEN [err |-> TRUE, sec |-> NoSection]
    ELSE LET s == file.sec[offset] IN
         IF s.size = 0 \/ s.size > file.size
         THEN [err |-> TRUE, sec |-> NoSection]
         ELSE IF s.type \notin KnownSectionTypes
         THEN [err |-> TRUE, sec |-> NoSection]
         ELSE [err |-> FALSE, sec |-> s]

\* ReadSection: the descriptor at offset, or an error.  An offset that holds
\* no descriptor of the file reads as bytes of an unknown section type.
ReadSection(offset) ==
    IF offset < 0 \/ offset >= file.size
    THEN [err |-> TRUE, sec |-> NoSection]
    ELSE IF offset + SectionLength > file.size \/ offset \notin DOMAIN file.sec
    THEN [err |-> TRUE, sec |-> NoSection]
    ELSE LET s == file.sec[offset] IN
         IF s.size = 0 \/ s.size > file.size
         THEN [err |-> TRUE, sec |-> NoSection]
         ELSE IF s.next > file.size
         THEN [err |-> TRUE, sec |-> NoSection]
         ELSE IF s.type \notin KnownSectionTypes
         THEN [err |-> TRUE, sec |-> NoSection]
         ELSE [err |-> FALSE, sec |-> s]

\* The loop of Parse stopping at the end of the file only.
ScanStopsAtEnd(next, processed, lastOff, fileSize) == next >= fileSize

\* The loop of Parse stops (break) before reading the section at `next`.
ScanStops(next, processed, lastOff, fileSize) ==
    \/ next \in processed
    \/ next <= lastOff
    \/ next >= fileSize

isValidTableEntry(entry, fileSize) ==
    /\ entry.ChunkOffset # 0
    /\ ~(entry.ChunkSize = 0 \/ entry.ChunkSize > MaxChunkSize)
    /\ ~(entry.ChunkOffset >= fileSize)
    /\ ~(entry.ChunkOffset + entry.ChunkSize > fileSize)

\* The entries ParseTable / ParseTable2 keep of the first n raw entries.
ValidEntries(raw, n, fileSize) ==
    LET Valid(e) == isValidTableEntry(e, fileSize)
    IN  SelectSeq(SubSeq(raw, 1, n), Valid)

\* ParseTable on the table section sec whose descriptor is at offset; the
\* read position is just behind the descriptor.  EntryNumber stays below
\* 0x0178 in the files of the model, so the body never starts with a zlib
\* magic and the branch "needDecompression" reads maxEntries entries in place.
\* `at` is a history field: the offset of the section the table came from.
ParseTableAt(sec, offset) ==
    LET currentPos == offset + SectionLength
        body       == file.tab[offset]
        maxEntries == (sec.size - TableHeaderLength) \div TableEntryLength
        need       == body.EntryNumber > maxEntries
        n          == IF need THEN maxEntries ELSE body.EntryNumber
        bad        == \/ sec.size < TableHeaderLength
                      \/ offset \notin DOMAIN file.tab
                      \/ currentPos + 4 > file.size
                      \/ need /\ currentPos + sec.size > file.size
                      \/ currentPos + TableHeaderLength + n * TableEntryLength > file.size
    IN  IF bad
        THEN [err |-> TRUE, table |-> [EntryNumber |-> 0, Entries |-> <<>>, at |-> offset]]
        ELSE [err |-> FALSE,
              table |-> [EntryNumber |-> body.EntryNumber,
                         Entries |-> ValidEntries(body.raw, n, file.size),
                         at |-> offset]]

ParseTable(sec, offset) == ParseTableAt(sec, offset)

ParseTable2(sec, offset) == ParseTableAt(sec, offset)

\* ParseVolume: the volume body is read whole (ReadFull of SectionSize
\* bytes), then as a DiskSMART struct or, when the file is too short for
\* the struct, field by field; out-of-range fields get their defaults.
ParseVolume(sec, offset) ==
    LET currentPos == offset + SectionLength
        avail      == file.size - currentPos
        raw        == file.disk
        whole      == avail >= DiskSMARTLength
        size0      == IF whole THEN raw.Size ELSE raw.SectorsCount * raw.SectorBytes
        sb         == IF raw.SectorBytes = 0 \/ raw.SectorBytes > MaxSectorBytes
                      THEN DefaultSectorBytes ELSE raw.SectorBytes
        cs         == IF raw.ChunkSectors = 0 \/ raw.ChunkSectors > MaxChunkSectors
                      THEN DefaultChunkSectors ELSE raw.ChunkSectors
        sc         == IF raw.SectorsCount = 0 /\ size0 > 0
                      THEN size0 \div sb ELSE raw.SectorsCount
        size1      == IF size0 = 0 THEN sc * sb ELSE size0
    IN  IF currentPos + sec.size > file.size \/ (~whole /\ avail < DiskKeyFieldsLength)
        THEN [err |-> TRUE, disk |-> NoDisk]
        ELSE [err |-> FALSE,
              disk |-> [nil |-> FALSE, ChunkCount |-> raw.ChunkCount, ChunkSectors |-> cs,
                        SectorBytes |-> sb, SectorsCount |-> sc, Size |-> size1]]

\* ParseHeaderSection allocates SectionSize - 76 bytes; the subtraction is
\* unsigned, so a smaller section asks for close to 2^64 bytes and make panics.
HeaderSectionPanics(sec) == sec.size < SectionLength

(***************************************************************************)
(* The chunk reader, the chunk cache and the sector reader.                *)
(***************************************************************************)

IsChunkCompressed(entry) == (entry.ChunkFlags % 2) = ChunkIsCompressed

\* decompressChunk.  zlib is modelled by its stored (uncompressed) streams
\* at reduced width: one header byte (the magic 0x78), the payload, one
\* trailing checksum byte.  Any other input is rejected.
decompressChunk(compressedData) ==
    IF Len(compressedData) < 2 \/ compressedData[1] # ZlibMagic
    THEN [err |-> TRUE, data |-> <<>>]
    ELSE [err |-> FALSE, data |-> SubSeq(compressedData, 2, Len(compressedData) - 1)]

\* The file position GetChunk seeks to for an entry.
ChunkSeekPosition(entry) == entry.ChunkOffset

\* GetChunk: seek, read ChunkSize bytes, inflate when the entry is flagged.
GetChunk(entry) ==
    LET at == ChunkSeekPosition(entry) IN
    IF at + entry.ChunkSize > file.size
    THEN [err |-> TRUE, data |-> <<>>, seek |-> at]
    ELSE LET stored == FileBytes(at, entry.ChunkSize) IN
         IF IsChunkCompressed(entry)
         THEN [seek |-> at] @@ decompressChunk(stored)
         ELSE [err |-> FALSE, data |-> stored, seek |-> at]

\* findAndReadChunk looks through e.Tables, then e.Tables2: in each table the
\* entry whose index IN THAT TABLE equals chunkNumber, skipped when invalid.
AllTables == Tables \o Tables2

EntryAnswers(t, chunkNumber) ==
    /\ chunkNumber + 1 <= Len(t.Entries)
    /\ isValidTableEntry(t.Entries[chunkNumber + 1], file.size)

\* Index in AllTables of the table that answers chunkNumber (0: none).
TableFor(chunkNumber) ==
    LET hits == {i \in 1..Len(AllTables) : EntryAnswers(AllTables[i], chunkNumber)}
    IN  IF hits = {} THEN 0 ELSE CHOOSE i \in hits : \A k \in hits : i <= k

NoTrace == [hit |-> FALSE, ti |-> 0, seek |-> -1]

\* findAndReadChunk without its cache insertion: the bytes, whether they
\* came from the cache, the table used and the position read.
findAndReadChunk(cache, chunkNumber) ==
    IF fh # "open"
    THEN [err |-> TRUE, data |-> <<>>] @@ NoTrace
    ELSE IF chunkNumber \in DOMAIN cache
    THEN [err |-> FALSE, data |-> cache[chunkNumber], hit |-> TRUE, ti |-> 0, seek |-> -1]
    ELSE LET ti == TableFor(chunkNumber) IN
         IF ti = 0
         THEN [err |-> TRUE, data |-> <<>>] @@ NoTrace
         ELSE LET got == GetChunk(AllTables[ti].Entries[chunkNumber + 1])
              IN  [err |-> got.err, data |-> got.data, hit |-> FALSE, ti |-> ti,
                   seek |-> got.seek]

\* addToCache that inserts without making room.
addToCacheNoEvict(cache, chunkNumber, chunkData) ==
    {[k \in DOMAIN cache \cup {chunkNumber} |->
        IF k = chunkNumber THEN chunkData ELSE cache[k]]}

\* addToCache with the capacity as a parameter: the caches that can result;
\* with the cache full, the entry deleted is the first one of a map
\* iteration, that is, any entry.
addToCacheCap(capacity, cache, chunkNumber, chunkData) ==
    LET put(c) == [k \in DOMAIN c \cup {chunkNumber} |->
                     IF k = chunkNumber THEN chunkData ELSE c[k]]
    IN  IF Cardinality(DOMAIN cache) >= capacity
        THEN {put([k \in DOMAIN cache \ {v} |-> cache[k]]) : v \in DOMAIN cache}
        ELSE {put(cache)}

\* addToCache of the image: the capacity is MaxCacheSize.
addToCache(cache, chunkNumber, chunkData) ==
    addToCacheCap(MaxCacheSize, cache, chunkNumber, chunkData)

extractSectorFromChunk(chunkData, sectorInChunk) ==
    LET sectorSize   == DiskInfo.SectorBytes
        sectorOffset == sectorInChunk * sectorSize
    IN  IF sectorOffset + sectorSize > Len(chunkData)
        THEN [err |-> TRUE, data |-> <<>>]
        ELSE [err |-> FALSE,
              data |-> SubSeq(chunkData, sectorOffset + 1, sectorOffset + sectorSize)]

\* ReadSector from a given cache: the possible outcomes (several only when
\* the insertion evicts).
ReadSector(cache, sectorNumber) ==
    IF DiskInfo.nil
    THEN {[err |-> TRUE, data |-> <<>>, cache |-> cache] @@ NoTrace}
    ELSE LET chunkNumber   == sectorNumber \div DiskInfo.ChunkSectors
             sectorInChunk == sectorNumber % DiskInfo.ChunkSectors
             found         == findAndReadChunk(cache, chunkNumber)
             trace         == [hit |-> found.hit, ti |-> found.ti, seek |-> found.seek]
         IN  IF found.err
             THEN {[err |-> TRUE, data |-> <<>>, cache |-> cache] @@ trace}
             ELSE LET sector == extractSectorFromChunk(found.data, sectorInChunk)
                      caches == IF found.hit THEN {cache}
                                ELSE addToCache(cache, chunkNumber, found.data)
                  IN  {[err |-> sector.err, data |-> sector.data, cache |-> c] @@ trace :
                         c \in caches}

GetSectorSize == IF DiskInfo.nil THEN 0 ELSE DiskInfo.SectorBytes

\* The loop of ReadSectors from its i-th round on, with the bytes collected.
RECURSIVE ReadSectorsFrom(_, _, _, _, _)
ReadSectorsFrom(cache, startSector, count, i, result) ==
    IF i >= count
    THEN {[err |-> FALSE, data |-> result, cache |-> cache]}
    ELSE UNION {IF o.err
                THEN {[err |-> TRUE, data |-> result, cache |-> o.cache]}
                ELSE ReadSectorsFrom(o.cache, startSector, count, i + 1, result \o o.data) :
                  o \in ReadSector(cache, startSector + i)}

ReadSectors(cache, startSector, count) ==
    ReadSectorsFrom(cache, startSector, count, 0, <<>>)

\* ReadBytes with the last sector computed from offset + size.
ReadBytesOffByOne(cache, offset, size) ==
    IF DiskInfo.nil
    THEN {[err |-> TRUE, data |-> <<>>, cache |-> cache]}
    ELSE LET sectorSize  == DiskInfo.SectorBytes
             startSector == offset \div sectorSize
             endSector   == ((offset + size) % WordModulus) \div sectorSize
             sectorCount == (endSector - startSector + 1) % WordModulus
             startOffset == offset % sectorSize
         IN  {IF o.err
              THEN [err |-> TRUE, data |-> <<>>, cache |-> o.cache]
              ELSE [err |-> FALSE,
                    data |-> SubSeq(o.data, startOffset + 1,
                                    Min(startOffset + size, Len(o.data))),
                    cache |-> o.cache] :
                o \in ReadSectors(cache, startSector, sectorCount)}

\* ReadBytes, in unsigned arithmetic.
ReadBytes(cache, offset, size) ==
    IF DiskInfo.nil
    THEN {[err |-> TRUE, data |-> <<>>, cache |-> cache]}
    ELSE LET sectorSize  == DiskInfo.SectorBytes
             startSector == offset \div sectorSize
             endSector   == ((offset + size - 1) % WordModulus) \div sectorSize
             sectorCount == (endSector - startSector + 1) % WordModulus
             startOffset == offset % sectorSize
         IN  {IF o.err
              THEN [err |-> TRUE, data |-> <<>>, cache |-> o.cache]
              ELSE [err |-> FALSE,
                    data |-> SubSeq(o.data, startOffset + 1,
                                    Min(startOffset + size, Len(o.data))),
                    cache |-> o.cache] :
                o \in ReadSectors(cache, startSector, sectorCount)}

(***************************************************************************)
(* The state machine.  An image is created by NewWithFilePath (Init); its  *)
(* caller then calls Initialize, Parse, ReadSector, ReadSectors and        *)
(* ReadBytes one at a time.  Parse runs in steps: its entry, one step per  *)
(* round of its scanning loop, and its final validation.                   *)
(***************************************************************************)
NoCall == [op |-> "none", a |-> 0, b |-> 0, err |-> FALSE, data |-> <<>>] @@ NoTrace

NoRun == [small |-> <<>>, big |-> <<>>, readsSmall |-> 0, readsBig |-> 0, order |-> <<>>,
          victim |-> {}, oldest |-> {}, n |-> 0]

MaxGoroutines == 2   \* goroutines that call ReadSector on one image

Goroutines == 1..MaxGoroutines

NoGo == [pc |-> "idle", n |-> 0, data |-> <<>>, err |-> FALSE, hit |-> FALSE]

\* No goroutine in ReadSector, e.fileMutex free (holder 0).
NoConc == [g |-> [i \in Goroutines |-> NoGo], fileMutex |-> 0, pos |-> 0, fatal |-> FALSE]

\* No FAT32 volume is mounted.
NoFat == [pc |-> "none"]

\* No EXT directory is being scanned.
NoExtScan == [pc |-> "none"]

\* No internal.EWFImage exists.
NoInternal == [pc |-> "none"]

\* No call of the filesystem package.
NoProbe == [in |-> [kind |-> "none"], op |-> "none", out |-> [err |-> FALSE]]

\* The image NewWithFilePath returns.
Constructed ==
    /\ fh = "nil"
    /\ posZero = FALSE
    /\ initialized = FALSE
    /\ Sections = <<>>
    /\ Tables = <<>>
    /\ Tables2 = <<>>
    /\ DiskInfo = NoDisk
    /\ chunkCache = <<>>
    /\ pc = "idle"
    /\ caller = "none"
    /\ section = NoSection
    /\ processedOffsets = {}
    /\ lastOffset = 0
    /\ foundDiskInfo = FALSE
    /\ foundDone = FALSE
    /\ parseResult = "none"
    /\ parses = 0
    /\ readLog = <<>>
    /\ last = NoCall

Init ==
    /\ file \in Files
    /\ Constructed
    /\ run = NoRun
    /\ conc = NoConc
    /\ probe = NoProbe
    /\ fat = NoFat
    /\ extscan = NoExtScan
    /\ internal = NoInternal

\* Parse returns `result` to its caller; Initialize closes the file on an
\* error and sets e.initialized otherwise.
Return(result, handle) ==
    /\ parseResult' = result
    /\ pc' = "idle"
    /\ IF caller' = "Initialize"
       THEN /\ fh' = IF result = "err" THEN "closed" ELSE handle
            /\ initialized' = (result = "ok")
       ELSE /\ fh' = handle
            /\ initialized' = initialized

\* The part of Parse before its loop, on an open handle: the file header is
\* read at the handle's position, then the section at offset 13.
ParseEntry(handle, atZero) ==
    LET first == ReadSection(FileHeaderLength) IN
    /\ posZero' = FALSE
    /\ IF ~atZero \/ file.size < FileHeaderLength
       THEN /\ Return("err", handle)
            /\ UNCHANGED <<Sections, section, processedOffsets, lastOffset,
                           foundDiskInfo, foundDone, readLog>>
       ELSE /\ readLog' = <<FileHeaderLength>>
            /\ IF first.err
               THEN /\ Return("err", handle)
                    /\ UNCHANGED <<Sections, section, processedOffsets, lastOffset,
                                   foundDiskInfo, foundDone>>
               ELSE /\ Sections' = Append(Sections, FileHeaderLength)
                    /\ section' = first.sec
                    /\ processedOffsets' = {FileHeaderLength}
                    /\ lastOffset' = FileHeaderLength
                    /\ foundDiskInfo' = FALSE
                    /\ foundDone' = FALSE
                    /\ pc' = "loop"
                    /\ fh' = handle
                    /\ UNCHANGED <<parseResult, initialized>>

\* Initialize on an image not yet initialized: open the file, Parse.
\* (On an initialized image it returns nil and changes nothing.)
Initialize ==
    /\ pc = "idle"
    /\ parses < MaxParses
    /\ ~initialized
    /\ caller' = "Initialize"
    /\ parses' = parses + 1
    /\ ParseEntry("open", TRUE)
    /\ last' = NoCall
    /\ UNCHANGED <<file, Tables, Tables2, DiskInfo, chunkCache>>
    /\ UNCHANGED otherVars

\* Parse called by the user of the image.  e.file.Stat() fails on a nil or
\* closed handle.
Parse ==
    /\ pc = "idle"
    /\ parses < MaxParses
    /\ caller' = "Parse"
    /\ parses' = parses + 1
    /\ IF fh # "open"
       THEN /\ Return("err", fh)
            /\ UNCHANGED <<posZero, Sections, section, processedOffsets, lastOffset,
                           foundDiskInfo, foundDone, readLog>>
       ELSE ParseEntry(fh, posZero)
    /\ last' = NoCall
    /\ UNCHANGED <<file, Tables, Tables2, DiskInfo, chunkCache>>
    /\ UNCHANGED otherVars

\* One round of the loop of Parse.
ParseLoop ==
    /\ pc = "loop"
    /\ UNCHANGED <<file, posZero, chunkCache, caller, parses, last>>
    /\ UNCHANGED otherVars
    /\ IF ScanStops(section.next, processedOffsets, lastOffset, file.size)
       THEN /\ pc' = "check"
            /\ UNCHANGED <<fh, initialized, Sections, Tables, Tables2, DiskInfo, section,
                           processedOffsets, lastOffset, foundDiskInfo, foundDone,
                           parseResult, readLog>>
       ELSE LET offset == section.next
                r      == ReadSection(offset)
                s      == r.sec
                volume == ParseVolume(s, offset)
                table  == ParseTable(s, offset)
                table2 == ParseTable2(s, offset)
            IN  /\ processedOffsets' = processedOffsets \cup {offset}
                /\ lastOffset' = offset
                /\ readLog' = Append(readLog, offset)
                /\ IF r.err
                   THEN /\ Return("err", fh)
                        /\ UNCHANGED <<Sections, Tables, Tables2, DiskInfo, section,
                                       foundDiskInfo, foundDone>>
                   ELSE /\ section' = s
                        /\ Sections' = Append(Sections, offset)
                        /\ DiskInfo' = IF s.type \in {"disk", "volume"} /\ ~volume.err
                                       THEN volume.disk ELSE DiskInfo
                        /\ foundDiskInfo' = (foundDiskInfo
                                             \/ (s.type \in {"disk", "volume"} /\ ~volume.err))
                        /\ Tables' = IF s.type = "table" /\ ~table.err
                                     THEN Append(Tables, table.table) ELSE Tables
                        /\ Tables2' = IF s.type = "table2" /\ ~table2.err
                                      THEN Append(Tables2, table2.table) ELSE Tables2
                        /\ foundDone' = (foundDone \/ s.type = "done")
                        /\ pc' = IF s.type \in {"header", "header2"} /\ HeaderSectionPanics(s)
                                 THEN "panic"
                                 ELSE IF foundDone' \/ s.next = 0 THEN "check" ELSE "loop"
                        /\ UNCHANGED <<fh, initialized, parseResult>>

\* The validation that ends Parse.
ParseCheck ==
    /\ pc = "check"
    /\ caller' = caller
    /\ IF ~foundDiskInfo
       THEN Return("err", fh)
       ELSE IF Len(Tables) = 0 /\ Len(Tables2) = 0
       THEN Return("err", fh)
       ELSE Return("ok", fh)
    /\ UNCHANGED <<file, posZero, Sections, Tables, Tables2, DiskInfo, chunkCache, section,
                   processedOffsets, lastOffset, foundDiskInfo, foundDone, parses, readLog,
                   last>>
    /\ UNCHANGED otherVars

ReaderUnchanged ==
    /\ UNCHANGED <<file, fh, posZero, initialized, Sections, Tables, Tables2, DiskInfo, pc,
                   caller, section, processedOffsets, lastOffset, foundDiskInfo, foundDone,
                   parseResult, parses, readLog>>
    /\ UNCHANGED otherVars

ReadSectorCall ==
    /\ pc = "idle"
    /\ \E n \in 0..MaxSector : \E o \in ReadSector(chunkCache, n) :
          /\ chunkCache' = o.cache
          /\ last' = [op |-> "ReadSector", a |-> n, b |-> 0, err |-> o.err, data |-> o.data,
                      hit |-> o.hit, ti |-> o.ti, seek |-> o.seek]
    /\ ReaderUnchanged

ReadSectorsCall ==
    /\ pc = "idle"
    /\ \E n \in 0..MaxSector, c \in 0..MaxCount : \E o \in ReadSectors(chunkCache, n, c) :
          /\ chunkCache' = o.cache
          /\ last' = [op |-> "ReadSectors", a |-> n, b |-> c, err |-> o.err,
                      data |-> o.data] @@ NoTrace
    /\ ReaderUnchanged

ReadBytesCall ==
    /\ pc = "idle"
    /\ \E off \in 0..MaxSector, len \in 0..(MaxCount + 1) : \E o \in ReadBytes(chunkCache, off, len) :
          /\ chunkCache' = o.cache
          /\ last' = [op |-> "ReadBytes", a |-> off, b |-> len, err |-> o.err,
                      data |-> o.data] @@ NoTrace
    /\ ReaderUnchanged

Next ==
    \/ Initialize
    \/ Parse
    \/ ParseLoop
    \/ ParseCheck
    \/ ReadSectorCall
    \/ ReadSectorsCall
    \/ ReadBytesCall

Spec == Init /\ [][Next]_vars

\* The scanner alone: the calls that open and parse the image.  A Parse that
\* has started keeps running: the caller's thread executes its loop and its
\* validation without waiting for anything.
ScanNext ==
    \/ Initialize
    \/ Parse
    \/ ParseLoop
    \/ ParseCheck

ScanSpec == Init /\ [][ScanNext]_vars /\ WF_vars(ParseLoop) /\ WF_vars(ParseCheck)

\* Close: e.file.Close() when e.file is not nil.  Closing an os.File that
\* is closed already returns an error; the handle stays in e.file.  last.a
\* is 1 when the handle had been closed before the call.
Close ==
    /\ pc = "idle"
    /\ fh' = IF fh = "nil" THEN "nil" ELSE "closed"
    /\ last' = [NoCall EXCEPT !.op = "Close",
                              !.a = IF fh = "closed" THEN 1 ELSE 0,
                              !.err = (fh = "closed")]
    /\ UNCHANGED <<file, posZero, initialized, Sections, Tables, Tables2, DiskInfo,
                   chunkCache, pc, caller, section, processedOffsets, lastOffset,
                   foundDiskInfo, foundDone, parseResult, parses, readLog>>
    /\ UNCHANGED otherVars

\* The life of one image: opening, parsing, reading, closing.
LifeNext ==
    \/ Initialize
    \/ Parse
    \/ ParseLoop
    \/ ParseCheck
    \/ ReadSectorCall
    \/ Close

LifeSpec == Init /\ [][LifeNext]_vars

(***************************************************************************)
(* The chunk cache on its own: one trace of chunk accesses is run on two   *)
(* caches, the second with room for one chunk more.  An access is the      *)
(* cache part of findAndReadChunk: a lookup, and on a miss a read of the   *)
(* chunk from the file followed by addToCache.                             *)
(***************************************************************************)
MaxAccesses == 5     \* accesses of one trace

SmallCapacity == MaxCacheSize + 1
BigCapacity == SmallCapacity + 1
CacheChunks == BigCapacity + 1

\* The stored bytes of chunk c of the trace.
ChunkBytes(c) == FileBytes(BodyOf("sectors1") + 4 * c, 4)

\* One access: the cache after it, whether the file was read, the chunk evicted.
ChunkAccess(capacity, cache, chunkNumber) ==
    IF chunkNumber \in DOMAIN cache
    THEN {[cache |-> cache, read |-> FALSE, victim |-> {}]}
    ELSE {[cache |-> c, read |-> TRUE, victim |-> DOMAIN cache \ DOMAIN c] :
            c \in addToCacheCap(capacity, cache, chunkNumber, ChunkBytes(chunkNumber))}

\* The chunks of a cache from the least to the most recently read, after a
\* read of chunk c that evicted the chunks of gone.
Touch(order, c, gone) ==
    SelectSeq(order, LAMBDA k : k # c /\ k \notin gone) \o <<c>>

CacheInit ==
    /\ file = BaseFile
    /\ Constructed
    /\ run = NoRun
    /\ conc = NoConc
    /\ probe = NoProbe
    /\ fat = NoFat
    /\ extscan = NoExtScan
    /\ internal = NoInternal

CacheAccess ==
    /\ run.n < MaxAccesses
    /\ \E c \in 0..(CacheChunks - 1) :
         \E s \in ChunkAccess(SmallCapacity, run.small, c) :
           \E b \in ChunkAccess(BigCapacity, run.big, c) :
              run' = [small      |-> s.cache,
                      big        |-> b.cache,
                      readsSmall |-> run.readsSmall + (IF s.read THEN 1 ELSE 0),
                      readsBig   |-> run.readsBig + (IF b.read THEN 1 ELSE 0),
                      order      |-> Touch(run.order, c, s.victim),
                      victim     |-> s.victim,
                      oldest     |-> IF s.victim = {} THEN {} ELSE {Head(run.order)},
                      n          |-> run.n + 1]
    /\ UNCHANGED <<file, fh, posZero, initialized, Sections, Tables, Tables2, DiskInfo,
                   chunkCache, pc, caller, section, processedOffsets, lastOffset,
                   foundDiskInfo, foundDone, parseResult, parses, readLog, last, conc,
                   probe, fat, extscan, internal>>

CacheNext == CacheAccess

CacheSpec == CacheInit /\ [][CacheNext]_vars

(***************************************************************************)
(* Several goroutines calling ReadSector on one initialized image.  A call *)
(* runs in the steps of findAndReadChunk: the cache lookup under           *)
(* cacheMutex.RLock, then GetChunk (fileMutex.Lock, Seek, ReadFull,        *)
(* Unlock), then addToCache, which takes no lock: its deletion and its     *)
(* insertion are two steps.  A map access that overlaps an unlocked        *)
(* addToCache of another goroutine is a data race: the Go runtime may stop *)
(* the program (conc.fatal) or let it go on.                               *)
(***************************************************************************)

\* e.fileMutex.Lock() that returns whoever holds the mutex.
FileMutexIgnored(holder) == TRUE

\* e.fileMutex.Lock() returns when no goroutine holds the mutex.
FileMutexFree(holder) == holder = 0

GoChunk(i) == conc.g[i].n \div DiskInfo.ChunkSectors

\* The table entry findAndReadChunk picks for the chunk of goroutine i.
GoEntry(i) == AllTables[TableFor(GoChunk(i))].Entries[GoChunk(i) + 1]

\* io.ReadFull at the handle's position, then the inflation GetChunk does.
ReadChunkAt(at, entry) ==
    IF at + entry.ChunkSize > file.size
    THEN [err |-> TRUE, data |-> <<>>]
    ELSE LET stored == FileBytes(at, entry.ChunkSize) IN
         IF IsChunkCompressed(entry)
         THEN decompressChunk(stored)
         ELSE [err |-> FALSE, data |-> stored]

\* Goroutine i is between the two map operations of addToCache.
InAddToCache(i) == conc.g[i].pc = "put"

\* Goroutine i holds cacheMutex.RLock for its lookup.
InLookup(i) == conc.g[i].pc = "lookup"

\* A map access of goroutine i (a write when writes) races with another goroutine.
Races(i, writes) ==
    \E h \in Goroutines \ {i} : InAddToCache(h) \/ (writes /\ InLookup(h))

ConcUnchanged ==
    UNCHANGED <<file, fh, posZero, initialized, Sections, Tables, Tables2, DiskInfo, pc,
                caller, section, processedOffsets, lastOffset, foundDiskInfo, foundDone,
                parseResult, parses, readLog, last, run, probe, fat, extscan, internal>>

\* Goroutine i steps to the record next, or a racing map access stops the program.
GoStep(i, next, racing) ==
    \/ conc' = [conc EXCEPT !.g[i] = next]
    \/ racing /\ conc' = [conc EXCEPT !.fatal = TRUE]

GoReady(i, at) == ~conc.fatal /\ conc.g[i].pc = at

\* ReadSector(n) is called: findAndReadChunk takes cacheMutex.RLock.
GoCall(i) ==
    /\ initialized /\ pc = "idle"
    /\ GoReady(i, "idle")
    /\ \E n \in 0..MaxSector :
          conc' = [conc EXCEPT !.g[i] = [NoGo EXCEPT !.pc = "lookup", !.n = n]]
    /\ UNCHANGED chunkCache
    /\ ConcUnchanged

\* The lookup in e.chunkCache and RUnlock; on a miss, the search of the tables.
GoLookup(i) ==
    LET me == conc.g[i]
        c  == GoChunk(i)
    IN  /\ GoReady(i, "lookup")
        /\ IF c \in DOMAIN chunkCache
           THEN LET sector == extractSectorFromChunk(chunkCache[c],
                                                     me.n % DiskInfo.ChunkSectors)
                IN  GoStep(i, [me EXCEPT !.pc = "done", !.hit = TRUE, !.err = sector.err,
                                         !.data = sector.data], Races(i, FALSE))
           ELSE IF TableFor(c) = 0
           THEN GoStep(i, [me EXCEPT !.pc = "done", !.err = TRUE], Races(i, FALSE))
           ELSE GoStep(i, [me EXCEPT !.pc = "lock"], Races(i, FALSE))
        /\ UNCHANGED chunkCache
        /\ ConcUnchanged

\* GetChunk: e.fileMutex.Lock().
GoLock(i) ==
    /\ GoReady(i, "lock")
    /\ FileMutexFree(conc.fileMutex)
    /\ conc' = [conc EXCEPT !.g[i].pc = "seek", !.fileMutex = i]
    /\ UNCHANGED chunkCache
    /\ ConcUnchanged

\* GetChunk: file.Seek(entry.ChunkOffset).
GoSeek(i) ==
    /\ GoReady(i, "seek")
    /\ conc' = [conc EXCEPT !.g[i].pc = "read", !.pos = ChunkSeekPosition(GoEntry(i))]
    /\ UNCHANGED chunkCache
    /\ ConcUnchanged

\* GetChunk: io.ReadFull at the position of the handle, and the inflation.
GoRead(i) ==
    LET got == ReadChunkAt(conc.pos, GoEntry(i)) IN
    /\ GoReady(i, "read")
    /\ conc' = [conc EXCEPT !.g[i].pc = "unlock", !.g[i].err = got.err,
                            !.g[i].data = got.data,
                            !.pos = Min(conc.pos + GoEntry(i).ChunkSize, file.size)]
    /\ UNCHANGED chunkCache
    /\ ConcUnchanged

\* GetChunk returns: the deferred e.fileMutex.Unlock().
GoUnlock(i) ==
    /\ GoReady(i, "unlock")
    /\ conc' = [conc EXCEPT !.g[i].pc = IF conc.g[i].err THEN "done" ELSE "evict",
                            !.fileMutex = 0]
    /\ UNCHANGED chunkCache
    /\ ConcUnchanged

\* addToCache, first part: with the cache full, one entry is deleted.
GoEvict(i) ==
    /\ GoReady(i, "evict")
    /\ GoStep(i, [conc.g[i] EXCEPT !.pc = "put"], Races(i, TRUE))
    /\ IF conc'.fatal \/ Cardinality(DOMAIN chunkCache) < MaxCacheSize
       THEN UNCHANGED chunkCache
       ELSE \E v \in DOMAIN chunkCache :
               chunkCache' = [k \in DOMAIN chunkCache \ {v} |-> chunkCache[k]]
    /\ ConcUnchanged

\* addToCache, second part: the insertion; ReadSector then cuts its sector.
GoPut(i) ==
    LET me     == conc.g[i]
        sector == extractSectorFromChunk(me.data, me.n % DiskInfo.ChunkSectors)
    IN  /\ GoReady(i, "put")
        /\ GoStep(i, [me EXCEPT !.pc = "done", !.err = sector.err, !.data = sector.data],
                  Races(i, TRUE))
        /\ IF conc'.fatal
           THEN UNCHANGED chunkCache
           ELSE chunkCache' = [k \in DOMAIN chunkCache \cup {GoChunk(i)} |->
                                 IF k = GoChunk(i) THEN me.data ELSE chunkCache[k]]
        /\ ConcUnchanged

\* ReadSector returns to its caller.
GoReturn(i) ==
    /\ GoReady(i, "done")
    /\ conc' = [conc EXCEPT !.g[i] = NoGo]
    /\ UNCHANGED chunkCache
    /\ ConcUnchanged

ConcInit ==
    /\ file = BaseFile
    /\ Constructed
    /\ run = NoRun
    /\ conc = NoConc
    /\ probe = NoProbe
    /\ fat = NoFat
    /\ extscan = NoExtScan
    /\ internal = NoInternal

ConcNext ==
    \/ Initialize
    \/ ParseLoop
    \/ ParseCheck
    \/ \E i \in Goroutines : GoCall(i)
    \/ \E i \in Goroutines : GoLookup(i)
    \/ \E i \in Goroutines : GoLock(i)
    \/ \E i \in Goroutines : GoSeek(i)
    \/ \E i \in Goroutines : GoRead(i)
    \/ \E i \in Goroutines : GoUnlock(i)
    \/ \E i \in Goroutines : GoEvict(i)
    \/ \E i \in Goroutines : GoPut(i)
    \/ \E i \in Goroutines : GoReturn(i)

ConcSpec == ConcInit /\ [][ConcNext]_vars

(***************************************************************************)
(* The filesystem package (detect.go, factory.go, fat32.go, ext.go).  The  *)
(* Reader it works on is a disk: a sequence of sectors, sector i of the    *)
(* disk at position i + 1.  A sector is a record of the fields the code    *)
(* reads from it: its length, the 0x55 0xAA signature at 510, the OEM      *)
(* string at 3, the BIOS parameter block, the labels at 54 and 82, the     *)
(* four partition entries at 446.  The EXT superblock at byte 1024 (super) *)
(* is part of the disk.                                                    *)
(***************************************************************************)
NoPartition == [status |-> 0, type |-> 0, start |-> 0]

BlankSector ==
    [len |-> 512, sig |-> FALSE, oem |-> "", bytesPerSector |-> 0, sectorsPerCluster |-> 0,
     reservedSectors |-> 0, numFATs |-> 0, rootEntries |-> 0, totalSectors16 |-> 0,
     sectorsPerFAT16 |-> 0, totalSectors32 |-> 0, sectorsPerFAT32 |-> 0,
     rootCluster |-> 0, label54 |-> "", label82 |-> "", tailMagic |-> 0,
     parts |-> [i \in 1..4 |-> NoPartition]]

\* A master boot record whose first partition entries are parts.
MbrSector(parts) ==
    [BlankSector EXCEPT !.sig = TRUE,
                        !.parts = [i \in 1..4 |-> IF i <= Len(parts) THEN parts[i]
                                                  ELSE NoPartition]]

Fat32BootSector ==
    [BlankSector EXCEPT !.sig = TRUE, !.oem = "MSDOS5.0", !.bytesPerSector = 512,
                        !.sectorsPerCluster = 1, !.reservedSectors = 32, !.numFATs = 2,
                        !.totalSectors32 = 9000, !.sectorsPerFAT32 = 70, !.rootCluster = 2,
                        !.label82 = "FAT32   "]

\* A FAT32 volume whose file allocation tables are 1000 sectors long.
Fat32LargeBootSector == [Fat32BootSector EXCEPT !.sectorsPerFAT32 = 1000]

Fat16BootSector ==
    [BlankSector EXCEPT !.sig = TRUE, !.oem = "MSDOS5.0", !.bytesPerSector = 512,
                        !.sectorsPerCluster = 1, !.reservedSectors = 1, !.numFATs = 2,
                        !.rootEntries = 512, !.totalSectors16 = 9000,
                        !.sectorsPerFAT16 = 35, !.label54 = "FAT16   "]

\* Fat16BootSector without label and with few sectors: FAT12 by cluster count.
Fat12BootSector ==
    [Fat16BootSector EXCEPT !.label54 = "", !.totalSectors16 = 2880, !.sectorsPerFAT16 = 9,
                            !.rootEntries = 224]

\* An NTFS boot sector: OEM "NTFS    ", no FATs, sectors per FAT 0 at 22, the
\* bytes 80 00 80 00 at 36; with or without the signature at 510.
NtfsBootSector(signed) ==
    [BlankSector EXCEPT !.sig = signed, !.oem = "NTFS    ", !.bytesPerSector = 512,
                        !.sectorsPerCluster = 8, !.sectorsPerFAT32 = 8388736]

NoSuper == [magic |-> 0, featureCompat |-> 0, featureIncompat |-> 0]

ExtMagic == 61267

\* The Reader's ReadSector on a disk.
DiskReadSector(disk, n) ==
    IF n + 1 <= Len(disk.sectors)
    THEN [err |-> FALSE, sector |-> disk.sectors[n + 1]]
    ELSE [err |-> TRUE, sector |-> BlankSector]

\* detectPartitionFileSystem.  Behind the signature every path returns a FAT
\* type.  The EXT and HFS checks need a sector of 1024 bytes or more; the
\* HFS ones compare four bytes with a two-byte string and never succeed.
detectPartitionFileSystem(sector, partitionType) ==
    IF sector.len < 512 THEN "UNKNOWN"
    ELSE IF sector.sig
    THEN IF partitionType \in {1, 4, 6, 14} THEN "FAT16"
         ELSE IF partitionType \in {11, 12} THEN "FAT32"
         ELSE LET bytesPerSector    == IF sector.bytesPerSector = 0 THEN 512
                                       ELSE sector.bytesPerSector
                  sectorsPerCluster == IF sector.sectorsPerCluster = 0 THEN 1
                                       ELSE sector.sectorsPerCluster
                  numFATs           == IF sector.numFATs = 0 THEN 2 ELSE sector.numFATs
                  totalSectors      == IF sector.totalSectors16 = 0
                                       THEN sector.totalSectors32 % 65536
                                       ELSE sector.totalSectors16
                  dataSectors       == (totalSectors - sector.reservedSectors
                                        - numFATs * sector.sectorsPerFAT16
                                        - (sector.rootEntries * 32) \div bytesPerSector)
                                       % WordModulus
                  clusterCount      == dataSectors \div sectorsPerCluster
              IN  IF sector.sectorsPerFAT16 = 0 /\ sector.sectorsPerFAT32 > 0 THEN "FAT32"
                  ELSE IF sector.label54 = "FAT16   " THEN "FAT16"
                  ELSE IF sector.label54 = "FAT12   " THEN "FAT12"
                  ELSE IF clusterCount < 4085 THEN "FAT12"
                  ELSE "FAT16"
    ELSE IF sector.oem = "NTFS    " THEN "NTFS"
    ELSE IF sector.len >= 1024 /\ sector.tailMagic = ExtMagic THEN "EXT2"
    ELSE "UNKNOWN"

\* The partitions of a master boot record DetectFileSystem recognises a
\* filesystem in: entry numbers, in table order.
RecognisedPartitions(disk) ==
    LET mbr == disk.sectors[1] IN
    {i \in 1..4 :
        /\ mbr.parts[i].status \in {128, 0}
        /\ mbr.parts[i].start > 0
        /\ ~DiskReadSector(disk, mbr.parts[i].start).err
        /\ detectPartitionFileSystem(DiskReadSector(disk, mbr.parts[i].start).sector,
                                     mbr.parts[i].type) # "UNKNOWN"}

\* The sectors 1..9 DetectFileSystem can read that look like a boot sector.
LaterBootSectors(disk) ==
    {i \in 1..Min(9, Len(disk.sectors) - 1) :
        detectPartitionFileSystem(disk.sectors[i + 1], 0) # "UNKNOWN"}

Lowest(S) == CHOOSE x \in S : \A y \in S : x <= y

\* DetectFileSystem.
DetectFileSystem(disk) ==
    LET first  == DiskReadSector(disk, 0)
        sector == first.sector
        found  == IF sector.len >= 512 /\ sector.sig THEN RecognisedPartitions(disk) ELSE {}
        super  == disk.super
    IN  IF first.err THEN [err |-> TRUE, type |-> "UNKNOWN"]
        ELSE IF found # {}
        THEN LET e == sector.parts[Lowest(found)]
             IN  [err |-> FALSE,
                  type |-> detectPartitionFileSystem(DiskReadSector(disk, e.start).sector,
                                                     e.type)]
        ELSE IF detectPartitionFileSystem(sector, 0) # "UNKNOWN"
        THEN [err |-> FALSE, type |-> detectPartitionFileSystem(sector, 0)]
        ELSE IF Len(disk.sectors) >= 4 /\ super.magic = ExtMagic
        THEN [err |-> FALSE,
              type |-> IF (super.featureIncompat \div 64) % 2 = 1 THEN "EXT4"
                       ELSE IF (super.featureCompat \div 4) % 2 = 1 THEN "EXT3"
                       ELSE "EXT2"]
        ELSE IF LaterBootSectors(disk) # {}
        THEN [err |-> FALSE,
              type |-> detectPartitionFileSystem(
                           disk.sectors[Lowest(LaterBootSectors(disk)) + 1], 0)]
        ELSE [err |-> FALSE, type |-> "RAW"]

\* NewFAT32FileSystem: the BIOS parameter block of sector 0 of the reader.
\* boot is the number of the sector it was read from.
NewFAT32FileSystem(disk) ==
    LET read       == DiskReadSector(disk, 0)
        bootSector == read.sector
    IN  IF read.err THEN [err |-> TRUE]
        ELSE [err |-> FALSE,
              fs  |-> [type              |-> "FAT32",
                       boot              |-> 0,
                       bytesPerSector    |-> bootSector.bytesPerSector,
                       sectorsPerCluster |-> bootSector.sectorsPerCluster,
                       reservedSectors   |-> bootSector.reservedSectors,
                       numberOfFATs      |-> bootSector.numFATs,
                       sectorsPerFAT     |-> bootSector.sectorsPerFAT32,
                       rootCluster       |-> bootSector.rootCluster,
                       totalSectors      |-> bootSector.totalSectors32,
                       fatStartSector    |-> bootSector.reservedSectors,
                       dataStartSector   |-> bootSector.reservedSectors
                                             + ((bootSector.numFATs
                                                 * (bootSector.sectorsPerFAT32 % 256)) % 256)]]

\* NewNTFSFileSystem: sector 0 of the reader again.
NewNTFSFileSystem(disk) ==
    LET read       == DiskReadSector(disk, 0)
        bootSector == read.sector
    IN  IF read.err THEN [err |-> TRUE]
        ELSE [err |-> FALSE,
              fs  |-> [type              |-> "NTFS",
                       boot              |-> 0,
                       bytesPerSector    |-> bootSector.bytesPerSector,
                       sectorsPerCluster |-> bootSector.sectorsPerCluster,
                       clusterSize       |-> bootSector.bytesPerSector
                                             * bootSector.sectorsPerCluster]]

\* newEXTFileSystem: the superblock at byte 1024 of the reader, which is in
\* sectors 2 and 3.
newEXTFileSystem(disk, fsType) ==
    IF Len(disk.sectors) < 4 \/ disk.super.magic # ExtMagic THEN [err |-> TRUE]
    ELSE [err |-> FALSE, fs |-> [type |-> fsType, boot |-> 2]]

\* CreateFileSystem.  DetectFileSystem never answers UNKNOWN without an error.
CreateFileSystem(disk) ==
    LET detected == DetectFileSystem(disk) IN
    IF detected.err \/ detected.type = "UNKNOWN" THEN [err |-> TRUE]
    ELSE IF detected.type \in {"FAT12", "FAT16", "FAT32"} THEN NewFAT32FileSystem(disk)
    ELSE IF detected.type \in {"EXT2", "EXT3", "EXT4"}
    THEN newEXTFileSystem(disk, detected.type)
    ELSE IF detected.type = "NTFS" THEN NewNTFSFileSystem(disk)
    ELSE [err |-> FALSE, fs |-> [type |-> "RAW", boot |-> 0]]

(***************************************************************************)
(* The disks the filesystem package is run on.                             *)
(***************************************************************************)
MaxDiskSectors == 4

BootSectors ==
    {BlankSector, Fat32BootSector, Fat32LargeBootSector, Fat16BootSector, Fat12BootSector,
     NtfsBootSector(TRUE), NtfsBootSector(FALSE)}

Supers ==
    {NoSuper} \cup {[magic |-> ExtMagic, featureCompat |-> c, featureIncompat |-> i] :
                        c \in {0, 4}, i \in {0, 64}}

\* Partition types: none, FAT16, NTFS, FAT32, Linux.
PartitionTypes == {0, 6, 7, 11, 131}

\* A disk of n sectors, blank but for sector 0 and the sector at start.
DiskOf(n, first, start, boot, super) ==
    [sectors |-> [i \in 1..n |-> IF i = 1 THEN first
                                 ELSE IF i = start + 1 THEN boot
                                 ELSE BlankSector],
     super   |-> super]

\* Disks with the filesystem in sector 0.
PlainDisks ==
    {DiskOf(n, boot, 0, boot, super) :
        n \in {1, MaxDiskSectors}, boot \in BootSectors, super \in Supers}

\* Disks with a master boot record and one partition at sector start > 0.
PartitionedDisks ==
    {DiskOf(MaxDiskSectors,
            MbrSector(<<[status |-> status, type |-> type, start |-> start]>>),
            start, boot, NoSuper) :
        status \in {0, 128}, type \in PartitionTypes,
        start \in 1..(MaxDiskSectors - 1), boot \in BootSectors}

Disks == PlainDisks \cup PartitionedDisks

\* The first partition of a disk's master boot record that a filesystem was
\* recognised in, 0 if there is none.
PartitionStart(disk) ==
    IF disk.sectors[1].sig /\ RecognisedPartitions(disk) # {}
    THEN disk.sectors[1].parts[Lowest(RecognisedPartitions(disk))].start
    ELSE 0

\* The calls below are the first call made on a reader: the operations keep
\* no state of their own, so a call does not depend on the calls before it.

\* The sector a disk's filesystem is looked for in first: the start of the
\* first partition of the master boot record, sector 0 without one.
DetectedSector(disk) ==
    LET mbr   == disk.sectors[1]
        parts == {i \in 1..4 : mbr.parts[i].start > 0}
    IN  IF mbr.sig /\ parts # {} THEN disk.sectors[mbr.parts[Lowest(parts)].start + 1]
        ELSE mbr

DetectFileSystemCall ==
    /\ probe.op = "none"
    /\ \E disk \in Disks :
          probe' = [in  |-> [kind |-> "disk", disk |-> disk],
                    op  |-> "DetectFileSystem",
                    out |-> DetectFileSystem(disk)]
    /\ UNCHANGED <<imageVars, run, conc, fat, extscan, internal>>

CreateFileSystemCall ==
    /\ probe.op = "none"
    /\ \E disk \in Disks :
          probe' = [in  |-> [kind |-> "disk", disk |-> disk],
                    op  |-> "CreateFileSystem",
                    out |-> CreateFileSystem(disk)]
    /\ UNCHANGED <<imageVars, run, conc, fat, extscan, internal>>

(***************************************************************************)
(* Paths in a FAT32 volume (fat32.go).  A name is a sequence of letters, a *)
(* path the sequence of its components, the root directory the empty       *)
(* path.  A directory is the sequence of its entries as readEntries        *)
(* returns them, each with the short name stored on the volume.            *)
(***************************************************************************)
Letters == {"a", "A", "b", "B"}

\* unicode.ToLower of a letter, which strings.EqualFold compares by.
Fold(c) == IF c = "A" THEN "a" ELSE IF c = "B" THEN "b" ELSE c

\* strings.EqualFold.
EqualFold(s, t) ==
    /\ Len(s) = Len(t)
    /\ \A i \in 1..Len(s) : Fold(s[i]) = Fold(t[i])

FileEntry(name, cluster) ==
    [name |-> name, isDirectory |-> FALSE, cluster |-> cluster, entries |-> <<>>]

DirEntry(name, cluster, entries) ==
    [name |-> name, isDirectory |-> TRUE, cluster |-> cluster, entries |-> entries]

\* The root directories of the volumes: a directory and a file, the directory
\* holding a file and a directory with a file, names stored in either case.
Volumes ==
    {<<DirEntry(<<d>>, 3, <<FileEntry(<<f>>, 4),
                            DirEntry(<<e>>, 5, <<FileEntry(<<f>>, 6)>>)>>),
       FileEntry(<<f>>, 7)>> :
        d \in {"a", "A"}, e \in {"a", "A"}, f \in {"b", "B"}}

MaxPathDepth == 2

Paths == UNION {[1..n -> {<<c>> : c \in Letters}] : n \in 0..MaxPathDepth}

\* The first of the matching entries of a directory, 0 if none matches.
FirstEntry(matching) == IF matching = {} THEN 0 ELSE Lowest(matching)

RECURSIVE GetDirectoryByPath(_, _)
\* FAT32FileSystem.GetDirectoryByPath from the directory with these entries
\* down the components parts.
GetDirectoryByPath(entries, parts) ==
    IF parts = <<>> THEN [err |-> FALSE, entries |-> entries]
    ELSE LET i == FirstEntry({e \in 1..Len(entries) :
                                  /\ EqualFold(entries[e].name, Head(parts))
                                  /\ entries[e].isDirectory})
         IN  IF i = 0 THEN [err |-> TRUE, entries |-> <<>>]
             ELSE GetDirectoryByPath(entries[i].entries, Tail(parts))

\* FAT32Directory.GetEntry.
GetEntry(entries, name) ==
    LET i == FirstEntry({e \in 1..Len(entries) : entries[e].name = name})
    IN  IF i = 0 THEN [err |-> TRUE] ELSE [err |-> FALSE, entry |-> entries[i]]

\* FAT32FileSystem.GetFileByPath on the volume with this root directory.
GetFileByPath(root, path) ==
    IF path = <<>> THEN [err |-> TRUE, cluster |-> 0]
    ELSE LET parentDir == GetDirectoryByPath(root, SubSeq(path, 1, Len(path) - 1))
             fileName  == path[Len(path)]
             found     == GetEntry(parentDir.entries, fileName)
         IN  IF parentDir.err \/ found.err THEN [err |-> TRUE, cluster |-> 0]
             ELSE IF found.entry.isDirectory THEN [err |-> TRUE, cluster |-> 0]
             ELSE [err |-> FALSE, cluster |-> found.entry.cluster]

GetFileByPathCall ==
    /\ probe.op = "none"
    /\ \E root \in Volumes, path \in Paths :
          probe' = [in  |-> [kind |-> "path", root |-> root, path |-> path],
                    op  |-> "GetFileByPath",
                    out |-> GetFileByPath(root, path)]
    /\ UNCHANGED <<imageVars, run, conc, fat, extscan, internal>>

(***************************************************************************)
(* File contents in an EXT2/3 volume (ext.go).  An inode has its Size and  *)
(* the fifteen pointers of Block: twelve direct blocks, then the single,   *)
(* double and triple indirect block.  The volume is a function from block  *)
(* numbers to blocks; a data block holds ExtBlockSize bytes, an indirect   *)
(* block ExtPointers block numbers, 0 for none.  Byte o of a file is o.    *)
(***************************************************************************)
DirectBlocks == 12

ExtBlockSize == 2     \* bytes of a block
ExtPointers == 2      \* block numbers in an indirect block

\* The data blocks a file of the four kinds of pointer can have.
MaxFileBlocks ==
    DirectBlocks + ExtPointers + ExtPointers * ExtPointers
    + ExtPointers * ExtPointers * ExtPointers

\* Data blocks of a file of size bytes.
FileBlocks(size) == (size + ExtBlockSize - 1) \div ExtBlockSize

\* Data block j of a file, j from 0, is block j + 1 of the volume.
DataBlockNo(j, size) == IF j < FileBlocks(size) THEN j + 1 ELSE 0

\* The indirect blocks lie behind the data blocks: the single indirect block,
\* the double indirect block and its ExtPointers children, the triple
\* indirect block, its children and theirs.
SingleNo == MaxFileBlocks + 1
DoubleNo == SingleNo + 1
DoubleChildNo(k) == DoubleNo + 1 + k
TripleNo == DoubleNo + ExtPointers + 1
TripleChildNo(a) == TripleNo + 1 + a
TripleGrandChildNo(a, k) == TripleNo + ExtPointers + 1 + a * ExtPointers + k

FirstSingle == DirectBlocks
FirstDouble == FirstSingle + ExtPointers
FirstTriple == FirstDouble + ExtPointers * ExtPointers

\* The block number to store for the indirect block no, which maps the
\* data blocks from first on: 0 if the file has no such data block.
IfUsed(no, first, size) == IF first < FileBlocks(size) THEN no ELSE 0

\* The inode of a file of size bytes.
Inode(size) ==
    [Size  |-> size,
     Block |-> [i \in 1..15 |->
                   IF i <= DirectBlocks THEN DataBlockNo(i - 1, size)
                   ELSE IF i = DirectBlocks + 1 THEN IfUsed(SingleNo, FirstSingle, size)
                   ELSE IF i = DirectBlocks + 2 THEN IfUsed(DoubleNo, FirstDouble, size)
                   ELSE IfUsed(TripleNo, FirstTriple, size)]]

\* The volume that holds the file of size bytes, without its block lost
\* (lost = 0: the volume is whole).
Volume(size, lost) ==
    LET DataBlock(no) ==
            [bytes |-> [o \in 1..ExtBlockSize |-> (no - 1) * ExtBlockSize + o - 1],
             ptrs  |-> <<>>]
        Indirect(P(_)) == [bytes |-> <<>>, ptrs |-> [k \in 1..ExtPointers |-> P(k - 1)]]
        Single(k)      == DataBlockNo(FirstSingle + k, size)
        Double(k)      == IfUsed(DoubleChildNo(k), FirstDouble + k * ExtPointers, size)
        Triple(a)      == IfUsed(TripleChildNo(a),
                                 FirstTriple + a * ExtPointers * ExtPointers, size)
        Kids  == 0..(ExtPointers - 1)
        used  == (1..FileBlocks(size))
                 \cup ({Inode(size).Block[i] : i \in 13..15} \ {0})
                 \cup ({Double(k) : k \in Kids} \ {0})
                 \cup ({Triple(a) : a \in Kids} \ {0})
                 \cup ({IfUsed(TripleGrandChildNo(a, k),
                               FirstTriple + (a * ExtPointers + k) * ExtPointers, size) :
                           a \in Kids, k \in Kids} \ {0})
    IN  [no \in used \ {lost} |->
            IF no <= MaxFileBlocks THEN DataBlock(no)
            ELSE IF no = SingleNo THEN Indirect(Single)
            ELSE IF no = DoubleNo THEN Indirect(Double)
            ELSE IF no = TripleNo THEN Indirect(Triple)
            ELSE IF no < TripleNo
            THEN Indirect(LAMBDA m :
                     DataBlockNo(FirstDouble + (no - DoubleNo - 1) * ExtPointers + m, size))
            ELSE IF no <= TripleNo + ExtPointers
            THEN Indirect(LAMBDA k :
                     IfUsed(TripleGrandChildNo(no - TripleNo - 1, k),
                            FirstTriple + ((no - TripleNo - 1) * ExtPointers + k)
                                          * ExtPointers, size))
            ELSE Indirect(LAMBDA m :
                     DataBlockNo(FirstTriple
                                 + (no - TripleNo - ExtPointers - 1) * ExtPointers + m,
                                 size))]

RECURSIVE ReadBlocks(_, _, _, _)
\* The loop of readInodeData over block numbers: it ends at a 0 or when
\* nothing remains, and fails when a block cannot be read.
ReadBlocks(volume, blocks, data, remainingSize) ==
    IF blocks = <<>> \/ Head(blocks) = 0 \/ remainingSize = 0
    THEN [err |-> FALSE, data |-> data, remainingSize |-> remainingSize]
    ELSE IF Head(blocks) \notin DOMAIN volume
    THEN [err |-> TRUE, data |-> <<>>, remainingSize |-> remainingSize]
    ELSE LET blockData   == volume[Head(blocks)].bytes
             bytesToRead == Min(Len(blockData), remainingSize)
         IN  ReadBlocks(volume, Tail(blocks), data \o SubSeq(blockData, 1, bytesToRead),
                        remainingSize - bytesToRead)

\* readInodeData, which EXTFile.ReadAll returns: the direct blocks, then
\* the blocks of the single indirect block.
readInodeData(volume, inode) ==
    LET direct == ReadBlocks(volume, SubSeq(inode.Block, 1, DirectBlocks), <<>>, inode.Size)
        single == inode.Block[DirectBlocks + 1]
    IN  IF direct.err THEN [err |-> TRUE, data |-> <<>>]
        ELSE IF direct.remainingSize > 0 /\ single # 0
        THEN IF single \notin DOMAIN volume THEN [err |-> TRUE, data |-> <<>>]
             ELSE LET indirect == ReadBlocks(volume, volume[single].ptrs, direct.data,
                                             direct.remainingSize)
                  IN  [err |-> indirect.err, data |-> indirect.data]
        ELSE [err |-> FALSE, data |-> direct.data]

ReadAllCall ==
    /\ probe.op = "none"
    /\ \E size \in 0..(MaxFileBlocks * ExtBlockSize) :
          \E lost \in {0} \cup DOMAIN Volume(size, 0) :
             probe' = [in  |-> [kind |-> "inode", inode |-> Inode(size), lost |-> lost],
                       op  |-> "ReadAll",
                       out |-> readInodeData(Volume(size, lost), Inode(size))]
    /\ UNCHANGED <<imageVars, run, conc, fat, extscan, internal>>

FsInit ==
    /\ file = BaseFile
    /\ Constructed
    /\ run = NoRun
    /\ conc = NoConc
    /\ probe = NoProbe
    /\ fat = NoFat
    /\ extscan = NoExtScan
    /\ internal = NoInternal

FsNext ==
    \/ DetectFileSystemCall
    \/ CreateFileSystemCall
    \/ GetFileByPathCall
    \/ ReadAllCall

FsSpec == FsInit /\ [][FsNext]_vars

(***************************************************************************)
(* Cluster chains of a FAT32 volume (fat32.go).  The clusters are numbered *)
(* from 2; the file allocation table gives for each the next cluster of    *)
(* its chain or an end-of-chain mark.  The model scales a sector to        *)
(* ClusterSlots units: a directory entry takes one unit, and file sizes,   *)
(* offsets and buffer lengths are counted in units.  Unit k of the         *)
(* volume's data area holds the number k, but for the unit endAt, which    *)
(* holds 0: read as a directory entry its first byte is 0x00, the end of   *)
(* the listing.                                                            *)
(***************************************************************************)
ClusterCount == 3      \* clusters of the volume
ClusterSlots == 2      \* units (directory entries) in a cluster of one sector
MaxChainLength == 4    \* longest chain getClusterChain accepts (1000000 in fat32.go:744)

EndOfChain == 268435448

Clusters == 2..(ClusterCount + 1)

\* The table of a volume whose chain from cluster 2 has n clusters, the last
\* of which is followed by tail: an end-of-chain mark, 0 (a free cluster), or
\* a cluster of the chain (a cycle).
ChainTable(n, tail) ==
    [c \in Clusters |-> IF c < n + 1 THEN c + 1 ELSE IF c = n + 1 THEN tail ELSE EndOfChain]

FatTables ==
    {ChainTable(c[1], c[2]) :
        c \in {d \in (1..ClusterCount) \X ({EndOfChain, 0} \cup Clusters) :
                  d[2] \in {EndOfChain, 0} \/ d[2] <= d[1] + 1}}

\* The volumes: a table, sectors per cluster 0 or 1, at most one cluster
\* whose sectors cannot be read (lost, 0 for none), and the unit that holds
\* the end-of-listing mark (endAt, 0 for none).
FatVolume(next, sectorsPerCluster, lost, endAt) ==
    [next |-> next, sectorsPerCluster |-> sectorsPerCluster, lost |-> lost, endAt |-> endAt]

\* getNextCluster: the table entry of a cluster, without its four high bits.
getNextCluster(vol, cluster) ==
    IF cluster < 2 THEN [err |-> TRUE, next |-> 0]
    ELSE [err |-> FALSE, next |-> vol.next[cluster]]

\* fs.reader.ReadSectors(startSector, sectorsPerCluster) for a cluster:
\* nothing is read for a count of 0.
ReadClusterSectors(vol, cluster) ==
    IF vol.sectorsPerCluster = 0 THEN [err |-> FALSE, data |-> <<>>]
    ELSE IF cluster = vol.lost \/ cluster \notin Clusters THEN [err |-> TRUE, data |-> <<>>]
    ELSE [err |-> FALSE,
          data |-> [k \in 1..ClusterSlots |->
                       LET unit == (cluster - 2) * ClusterSlots + k
                       IN  IF unit = vol.endAt THEN 0 ELSE unit]]

\* readCluster.
readCluster(vol, cluster) ==
    IF cluster < 2 THEN [err |-> TRUE, data |-> <<>>] ELSE ReadClusterSectors(vol, cluster)

\* The entries readEntries takes from the data of one cluster: those before
\* the first entry whose first byte is 0x00.
RECURSIVE ClusterEntries(_)
ClusterEntries(clusterData) ==
    IF clusterData = <<>> \/ Head(clusterData) = 0 THEN <<>>
    ELSE <<Head(clusterData)>> \o ClusterEntries(Tail(clusterData))

(***************************************************************************)
(* A FAT32 directory object that starts at cluster 2.  GetEntries runs in  *)
(* steps: one per round of the loop of getClusterChain, then one per       *)
(* cluster of the chain in readEntries.  fat.entries is d.entries.         *)
(***************************************************************************)
MaxGetEntries == 2     \* GetEntries calls on one directory object

NilEntries == [nil |-> TRUE, list |-> <<>>]

NoListing == [done |-> FALSE, err |-> FALSE, list |-> <<>>]

FatDirInit ==
    /\ file = BaseFile
    /\ Constructed
    /\ run = NoRun
    /\ conc = NoConc
    /\ probe = NoProbe
    /\ extscan = NoExtScan
    /\ internal = NoInternal
    /\ \E next \in FatTables, spc \in {0, 1}, lost \in {0} \cup Clusters,
          endAt \in 0..(ClusterCount * ClusterSlots) :
          fat = [pc |-> "idle", vol |-> FatVolume(next, spc, lost, endAt),
                 entries |-> NilEntries, chain |-> <<>>, idx |-> 0, calls |-> 0,
                 out |-> NoListing, failed |-> FALSE]

FatUnchanged == UNCHANGED <<imageVars, run, conc, probe, extscan, internal>>

\* A running GetEntries returns: fat.failed records that some call failed.
FatReturn(err, list) ==
    [fat EXCEPT !.pc = "idle", !.out = [done |-> TRUE, err |-> err, list |-> list],
                !.failed = fat.failed \/ err]

\* GetEntries up to the loop of getClusterChain; with d.entries set it
\* returns them.
FatGetEntriesCall ==
    /\ fat.pc = "idle"
    /\ fat.calls < MaxGetEntries
    /\ fat' = IF ~fat.entries.nil
              THEN [FatReturn(FALSE, fat.entries.list) EXCEPT !.calls = fat.calls + 1]
              ELSE [fat EXCEPT !.pc = "chain", !.chain = <<2>>, !.calls = fat.calls + 1,
                               !.out = NoListing]
    /\ FatUnchanged

\* One round of the loop of getClusterChain; at the end of the chain
\* readEntries sets d.entries to an empty, non-nil list.
FatChainLoop ==
    /\ fat.pc = "chain"
    /\ LET got == getNextCluster(fat.vol, fat.chain[Len(fat.chain)]) IN
       fat' = IF got.err THEN FatReturn(TRUE, <<>>)
              ELSE IF got.next >= EndOfChain
              THEN [fat EXCEPT !.pc = "entries", !.idx = 1,
                               !.entries = [nil |-> FALSE, list |-> <<>>]]
              ELSE IF Len(fat.chain) + 1 > MaxChainLength THEN FatReturn(TRUE, <<>>)
              ELSE [fat EXCEPT !.chain = Append(@, got.next)]
    /\ FatUnchanged

\* One round of the loop of readEntries over the clusters of the chain.
FatEntriesLoop ==
    /\ fat.pc = "entries"
    /\ fat' = IF fat.idx > Len(fat.chain) THEN FatReturn(FALSE, fat.entries.list)
              ELSE LET read == ReadClusterSectors(fat.vol, fat.chain[fat.idx]) IN
                   IF read.err THEN FatReturn(TRUE, <<>>)
                   ELSE [fat EXCEPT !.idx = @ + 1,
                                    !.entries.list = @ \o ClusterEntries(read.data)]
    /\ FatUnchanged

FatDirNext ==
    \/ FatGetEntriesCall
    \/ FatChainLoop
    \/ FatEntriesLoop

FatDirSpec == FatDirInit /\ [][FatDirNext]_vars

(***************************************************************************)
(* A FAT32 file that starts at cluster 2.  ReadAt runs in steps, one per   *)
(* round of its loop that skips clusters and one per round of its loop     *)
(* that reads.  ReadAll is io.ReadAll over the reader Open returns: it     *)
(* calls Read with a buffer of ReadBufferLength units until Read returns   *)
(* an error or io.EOF, and each round of the loop of Read is a step.       *)
(* fat.all is what ReadAll returned, fat.out what ReadAt returned.         *)
(***************************************************************************)
MaxFileSize == 3        \* largest f.size, offset and len(p)
ReadBufferLength == 2   \* spare capacity io.ReadAll hands to Read

NoReadAt == [done |-> FALSE, n |-> 0, err |-> "nil", data |-> <<>>]

NoReadAll == [done |-> FALSE, err |-> "nil", data |-> <<>>]

\* The reader Open returns.
Open == [pos |-> 0, currentCluster |-> 0, clusterData |-> <<>>, clusterPos |-> 0]

FatFileInit ==
    /\ file = BaseFile
    /\ Constructed
    /\ run = NoRun
    /\ conc = NoConc
    /\ probe = NoProbe
    /\ extscan = NoExtScan
    /\ internal = NoInternal
    /\ \E next \in FatTables, spc \in {0, 1}, lost \in {0} \cup Clusters, size \in 0..MaxFileSize :
          fat = [pc |-> "idle", vol |-> FatVolume(next, spc, lost, 0), size |-> size,
                 off |-> 0, cur |-> 0, currentOffset |-> 0, remaining |-> 0,
                 inClusterOffset |-> 0, p |-> <<>>, out |-> NoReadAt,
                 r |-> Open, plen |-> 0, bytesRead |-> 0, all |-> NoReadAll]

\* ReadAt returns n units of p.
ReadAtReturn(p, err) ==
    [fat EXCEPT !.pc = "idle", !.p = p,
                !.out = [done |-> TRUE, n |-> Len(p), err |-> err, data |-> p]]

\* ReadAt(p, off) up to its first loop.
FatReadAtCall ==
    /\ fat.pc = "idle"
    /\ ~fat.out.done
    /\ \E off \in (-1)..MaxFileSize, length \in 0..MaxFileSize :
          fat' = IF off < 0 THEN [ReadAtReturn(<<>>, "error") EXCEPT !.off = off]
                 ELSE IF off >= fat.size THEN [ReadAtReturn(<<>>, "EOF") EXCEPT !.off = off]
                 ELSE [fat EXCEPT !.pc = "skip", !.off = off, !.remaining = length,
                                  !.cur = 2, !.currentOffset = 0, !.p = <<>>]
    /\ FatUnchanged

\* One round of the loop of ReadAt that skips the clusters before off, or
\* its end.
FatSkipLoop ==
    /\ fat.pc = "skip"
    /\ LET clusterSize == ClusterSlots * fat.vol.sectorsPerCluster
           got == getNextCluster(fat.vol, fat.cur)
       IN  fat' = IF fat.currentOffset + clusterSize <= fat.off
                  THEN IF got.err THEN ReadAtReturn(<<>>, "error")
                       ELSE IF got.next >= EndOfChain THEN ReadAtReturn(<<>>, "EOF")
                       ELSE [fat EXCEPT !.cur = got.next,
                                        !.currentOffset = @ + clusterSize]
                  ELSE [fat EXCEPT !.pc = "read",
                                   !.inClusterOffset = fat.off - fat.currentOffset]
    /\ FatUnchanged

\* One round of the loop of ReadAt that reads clusters, or its end.
FatReadAtLoop ==
    /\ fat.pc = "read"
    /\ LET read == readCluster(fat.vol, fat.cur)
           toRead == Min(Len(read.data) - fat.inClusterOffset, fat.remaining)
           p == fat.p \o SubSeq(read.data, fat.inClusterOffset + 1, fat.inClusterOffset + toRead)
           got == getNextCluster(fat.vol, fat.cur)
       IN  fat' = IF fat.remaining = 0 THEN ReadAtReturn(fat.p, "nil")
                  ELSE IF read.err
                  THEN ReadAtReturn(fat.p, IF Len(fat.p) > 0 THEN "nil" ELSE "error")
                  ELSE IF fat.remaining - toRead = 0 THEN ReadAtReturn(p, "nil")
                  ELSE IF got.err THEN ReadAtReturn(p, "error")
                  ELSE IF got.next >= EndOfChain THEN ReadAtReturn(p, "nil")
                  ELSE [fat EXCEPT !.p = p, !.remaining = @ - toRead,
                                   !.inClusterOffset = 0, !.cur = got.next]
    /\ FatUnchanged

\* io.ReadAll returns what it has read: io.EOF from Read is not an error of
\* ReadAll.
ReadAllReturn(data, err) ==
    [fat EXCEPT !.pc = "idle",
                !.all = [done |-> TRUE, err |-> IF err = "EOF" THEN "nil" ELSE err,
                         data |-> data]]

\* ReadAll: Open, and io.ReadAll starts.
FatReadAllCall ==
    /\ fat.pc = "idle"
    /\ ~fat.all.done
    /\ ~fat.out.done
    /\ fat' = [fat EXCEPT !.pc = "Read", !.r = Open, !.all = NoReadAll]
    /\ FatUnchanged

\* io.ReadAll calls Read: Read up to its loop.
FatReadCall ==
    /\ fat.pc = "Read"
    /\ fat' = IF fat.r.pos >= fat.size THEN ReadAllReturn(fat.all.data, "EOF")
              ELSE [fat EXCEPT !.pc = "ReadLoop", !.bytesRead = 0,
                               !.plen = Min(ReadBufferLength, fat.size - fat.r.pos)]
    /\ FatUnchanged

\* One round of the loop of Read, or its end; io.ReadAll keeps the units
\* Read has copied.
FatReadLoop ==
    /\ fat.pc = "ReadLoop"
    /\ LET r == fat.r
           advance == r.clusterPos >= Len(r.clusterData)
           got == IF r.currentCluster = 0 THEN [err |-> FALSE, next |-> 2]
                  ELSE getNextCluster(fat.vol, r.currentCluster)
           read == ReadClusterSectors(fat.vol, got.next)
           clusterData == IF advance THEN read.data ELSE r.clusterData
           clusterPos == IF advance THEN 0 ELSE r.clusterPos
           bytesToCopy == Min(Len(clusterData) - clusterPos, fat.plen - fat.bytesRead)
           data == fat.all.data \o SubSeq(clusterData, clusterPos + 1, clusterPos + bytesToCopy)
       IN  fat' = IF fat.bytesRead >= fat.plen THEN [fat EXCEPT !.pc = "Read"]
                  ELSE IF advance /\ got.err THEN ReadAllReturn(fat.all.data, "error")
                  ELSE IF advance /\ r.currentCluster # 0 /\ got.next >= EndOfChain
                  THEN ReadAllReturn(fat.all.data, "EOF")
                  ELSE IF advance /\ read.err
                  THEN [ReadAllReturn(fat.all.data, "error") EXCEPT !.r.currentCluster = got.next]
                  ELSE LET moved == [fat EXCEPT !.r = [pos |-> r.pos + bytesToCopy,
                                                       currentCluster |->
                                                           IF advance THEN got.next
                                                           ELSE r.currentCluster,
                                                       clusterData |-> clusterData,
                                                       clusterPos |-> clusterPos + bytesToCopy],
                                                !.bytesRead = @ + bytesToCopy,
                                                !.all.data = data]
                       IN  IF r.pos + bytesToCopy >= fat.size
                           THEN [moved EXCEPT !.pc = "idle", !.all.done = TRUE]
                           ELSE moved
    /\ FatUnchanged

FatFileNext ==
    \/ FatReadAtCall
    \/ FatSkipLoop
    \/ FatReadAtLoop
    \/ FatReadAllCall
    \/ FatReadCall
    \/ FatReadLoop

\* A loop that can take a round takes it.
FatFileSpec ==
    /\ FatFileInit
    /\ [][FatFileNext]_vars
    /\ WF_vars(FatSkipLoop)
    /\ WF_vars(FatReadAtLoop)
    /\ WF_vars(FatReadCall)
    /\ WF_vars(FatReadLoop)

(***************************************************************************)
(* Directories of an EXT volume (ext.go).  The data of a directory is a    *)
(* run of records; the model counts it in units of 8 bytes and keeps, for  *)
(* every offset, the record that decodes there: its inode number, its      *)
(* rec_len and its name.  GetEntries and findEntry run in steps, one per   *)
(* round of their loop.                                                    *)
(***************************************************************************)
ExtDirLength == 3     \* units of directory data
DirEntryLength == 1   \* units binary.Read needs for one EXTDirEntry (263 bytes)

ExtNames == <<".", "a", "b">>

\* An inode number readInode fails on.
BadInode == 0

\* The directories: any rec_len from 0 on at every offset, the record at
\* offset bad (none for bad = ExtDirLength) naming an unreadable inode.
ExtDirs ==
    {[o \in 0..(ExtDirLength - 1) |->
         [Inode   |-> IF o = bad THEN BadInode ELSE 11 + o,
          RecLen  |-> recLens[o],
          Name    |-> ExtNames[(o % Len(ExtNames)) + 1]]] :
        recLens \in [0..(ExtDirLength - 1) -> 0..2], bad \in 0..ExtDirLength}

\* The entries a scan may collect in the model: one more than the directory
\* has offsets, so that a list this long holds a record twice.
MaxCollected == ExtDirLength + 1

ExtDirInit ==
    /\ file = BaseFile
    /\ Constructed
    /\ run = NoRun
    /\ conc = NoConc
    /\ probe = NoProbe
    /\ fat = NoFat
    /\ internal = NoInternal
    /\ \E dir \in ExtDirs :
          extscan = [pc |-> "idle", data |-> dir, op |-> "none", name |-> "", offset |-> 0,
                     entries |-> <<>>, err |-> FALSE, found |-> BadInode]

ExtScanUnchanged == UNCHANGED <<imageVars, run, conc, probe, fat, internal>>

\* EXTDirectory.GetEntries up to its loop.
ExtGetEntriesCall ==
    /\ extscan.pc = "idle"
    /\ extscan.op = "none"
    /\ extscan' = [extscan EXCEPT !.pc = "list", !.op = "GetEntries", !.offset = 0,
                                  !.entries = <<>>]
    /\ ExtScanUnchanged

\* One round of the loop of GetEntries.
ExtGetEntriesLoop ==
    /\ extscan.pc = "list"
    /\ Len(extscan.entries) < MaxCollected
    /\ LET data   == extscan.data
           offset == extscan.offset
           length == ExtDirLength
       IN  IF ~(offset < length)
           THEN extscan' = [extscan EXCEPT !.pc = "idle"]
           ELSE IF length - offset < DirEntryLength
           THEN extscan' = [extscan EXCEPT !.pc = "idle", !.err = TRUE, !.entries = <<>>]
           ELSE LET entry == data[offset] IN
                IF entry.Name \in {".", ".."}
                THEN extscan' = [extscan EXCEPT !.offset = offset + entry.RecLen]
                ELSE IF entry.Inode = BadInode
                THEN extscan' = [extscan EXCEPT !.pc = "idle", !.err = TRUE,
                                                !.entries = <<>>]
                ELSE extscan' = [extscan EXCEPT !.entries = Append(@, entry.Inode),
                                                !.offset = offset + entry.RecLen]
    /\ ExtScanUnchanged

\* EXTFileSystem.findEntry up to its loop.
findEntryCall ==
    /\ extscan.pc = "idle"
    /\ extscan.op = "none"
    /\ \E name \in {"a", "b", "c"} :
          extscan' = [extscan EXCEPT !.pc = "find", !.op = "findEntry", !.name = name,
                                     !.offset = 0]
    /\ ExtScanUnchanged

\* One round of the loop of findEntry.
findEntryLoop ==
    /\ extscan.pc = "find"
    /\ LET data   == extscan.data
           offset == extscan.offset
           length == ExtDirLength
       IN  IF ~(offset < length)
           THEN extscan' = [extscan EXCEPT !.pc = "idle", !.err = TRUE]
           ELSE IF length - offset < DirEntryLength
           THEN extscan' = [extscan EXCEPT !.pc = "idle", !.err = TRUE]
           ELSE LET entry == data[offset] IN
                IF entry.Name = extscan.name
                THEN extscan' = [extscan EXCEPT !.pc = "idle", !.found = entry.Inode]
                ELSE extscan' = [extscan EXCEPT !.offset = offset + entry.RecLen]
    /\ ExtScanUnchanged

ExtDirNext ==
    \/ ExtGetEntriesCall
    \/ ExtGetEntriesLoop
    \/ findEntryCall
    \/ findEntryLoop

\* The caller's thread runs the loops without waiting for anything.
ExtDirSpec ==
    ExtDirInit /\ [][ExtDirNext]_vars /\ WF_vars(ExtGetEntriesLoop) /\ WF_vars(findEntryLoop)

(***************************************************************************)
(* The package internal (internal/ewf.go): its EWFImage keeps the sections *)
(* ReadSections finds, each with its address.  ReadSections runs in steps, *)
(* one per round of its loop.                                              *)
(***************************************************************************)

\* The sections one list of the model holds: one more than a segment file
\* of the model has, so that a list this long holds a section twice.
MaxListed == Cardinality(SectionNames) + 1

\* internal ReadSection: ReadAt fills a zeroed buffer of 76 bytes with what
\* the file holds at address and reports no error, and a buffer of 76 bytes
\* always decodes.  In the files of the model an address without a whole
\* descriptor has fewer than 16 bytes of the file behind it, so the
\* next_offset read there is 0.
InternalReadSection(address) ==
    IF address \in DOMAIN file.sec THEN file.sec[address] ELSE NoSection

InternalInit ==
    /\ file \in Files
    /\ Constructed
    /\ run = NoRun
    /\ conc = NoConc
    /\ probe = NoProbe
    /\ fat = NoFat
    /\ extscan = NoExtScan
    /\ internal = [pc |-> "idle", Sections |-> <<>>, address |-> 0, calls |-> 0]

\* ReadSections up to its loop.
ReadSectionsCall ==
    /\ internal.pc = "idle"
    /\ internal.calls = 0
    /\ internal' = [internal EXCEPT !.pc = "loop", !.address = FileHeaderLength,
                                    !.calls = 1]
    /\ UNCHANGED <<imageVars, run, conc, probe, fat, extscan>>

\* One round of the loop of ReadSections.
ReadSectionsLoop ==
    /\ internal.pc = "loop"
    /\ Len(internal.Sections) < MaxListed
    /\ LET sec == InternalReadSection(internal.address) IN
       internal' = [internal EXCEPT
                       !.Sections = Append(@, internal.address),
                       !.address  = sec.next,
                       !.pc       = IF sec.type = "done" \/ sec.next = 0
                                    THEN "idle" ELSE "loop"]
    /\ UNCHANGED <<imageVars, run, conc, probe, fat, extscan>>

InternalNext ==
    \/ ReadSectionsCall
    \/ ReadSectionsLoop

\* The caller's thread runs the loop without waiting for anything.
InternalSpec == InternalInit /\ [][InternalNext]_vars /\ WF_vars(ReadSectionsLoop)

(***************************************************************************)
(* Properties.                                                             *)
(***************************************************************************)

\* What a caller sees of an outcome: the error, and the bytes when there is none.
Seen(o) == [err |-> o.err, data |-> IF o.err THEN <<>> ELSE o.data]

\* The chunk number ReadSector computes for the sector of the last call.
LastChunk == last.a \div DiskInfo.ChunkSectors

\* C1: on an image whose disk information is parsed, for every sector i below
\* the sector count, ReadSector(i), ReadSectors(i, 1) and
\* ReadBytes(i * bytes_per_sector, bytes_per_sector) return the same bytes,
\* or all three fail; the outcome does not depend on what the cache evicts.
C1_SameBytes ==
    ~DiskInfo.nil =>
        \A i \in 0..(DiskInfo.SectorsCount - 1) :
            LET bps == DiskInfo.SectorBytes
                one == {Seen(o) : o \in ReadSector(chunkCache, i)}
            IN  /\ Cardinality(one) = 1
                /\ {Seen(o) : o \in ReadSectors(chunkCache, i, 1)} = one
                /\ {Seen(o) : o \in ReadBytes(chunkCache, i * bps, bps)} = one

\* A ReadBytes call for one whole sector of the disk returned that sector.
C1_Witness ==
    /\ ~DiskInfo.nil
    /\ last.op = "ReadBytes"
    /\ ~last.err
    /\ last.b = DiskInfo.SectorBytes
    /\ last.a % DiskInfo.SectorBytes = 0
    /\ last.a \div DiskInfo.SectorBytes < DiskInfo.SectorsCount
    /\ Len(last.data) = DiskInfo.SectorBytes
    /\ last.data \in {o.data : o \in ReadSector(chunkCache, last.a \div DiskInfo.SectorBytes)}

\* The first sector of the disk stored in BaseFile.
FirstSector == FileBytes(BodyOf("sectors1"), 2)

\* C2: on a fresh image of a valid file (NewWithFilePath, no Initialize), a
\* direct call of Parse succeeds, and a following ReadSector(0) returns the
\* first sector.
C2_ParseWithoutInitialize ==
    (caller = "Parse" /\ pc = "idle" /\ fh = "nil" /\ file = BaseFile) =>
        /\ parseResult = "ok"
        /\ (last.op = "ReadSector" /\ last.a = 0) => (~last.err /\ last.data = FirstSector)

\* The entries of a sequence of tables, one after the other.
RECURSIVE ConcatEntries(_)
ConcatEntries(tables) ==
    IF tables = <<>> THEN <<>>
    ELSE Head(tables).Entries \o ConcatEntries(Tail(tables))

\* The entry the last ReadSector call read its chunk with (it read one when
\* last.ti is not 0).
UsedEntry == AllTables[last.ti].Entries[LastChunk + 1]

\* C3: the chunk index is the concatenation of the entries of the table
\* sections in file order: a ReadSector that has to read chunk n, with n
\* below the length of the concatenation, reads it with the n-th entry.
C3_IndexIsConcatenation ==
    (parseResult = "ok" /\ pc = "idle" /\ last.op = "ReadSector" /\ ~last.hit
        /\ LastChunk < Len(ConcatEntries(Tables))) =>
        /\ last.ti # 0
        /\ UsedEntry = ConcatEntries(Tables)[LastChunk + 1]

\* Start of the nearest sectors section before the table section at tableOffset
\* (0 when there is none).
SectorsBase(tableOffset) ==
    LET before == {o \in DOMAIN file.sec : file.sec[o].type = "sectors" /\ o < tableOffset}
    IN  IF before = {} THEN 0 ELSE CHOOSE o \in before : \A k \in before : k <= o

\* C4: the stored bytes of a chunk are read at sectors_base + offset, offset
\* being the offset field of the table entry used and sectors_base the start
\* of the nearest sectors section before the entry's table.
C4_ChunkReadAtSectorsBasePlusOffset ==
    (pc = "idle" /\ last.op = "ReadSector" /\ last.ti # 0) =>
        last.seek = SectorsBase(AllTables[last.ti].at) + UsedEntry.ChunkOffset

\* C5: a read that extends beyond the disk fails and returns no data.
C5_OutOfRangeReadsFail ==
    (~DiskInfo.nil /\ pc = "idle") =>
        /\ (last.op = "ReadSector" /\ last.a >= DiskInfo.SectorsCount)
              => (last.err /\ last.data = <<>>)
        /\ (last.op = "ReadSectors" /\ last.a + last.b > DiskInfo.SectorsCount)
              => (last.err /\ last.data = <<>>)
        /\ (last.op = "ReadBytes"
              /\ last.a + last.b > DiskInfo.SectorsCount * DiskInfo.SectorBytes)
              => (last.err /\ last.data = <<>>)

\* The entries stored in the table sections parsed into e.Tables, rejected
\* ones included, one table after the other: position n is chunk n.
RECURSIVE StoredEntries(_)
StoredEntries(tables) ==
    IF tables = <<>> THEN <<>>
    ELSE file.tab[Head(tables).at].raw \o StoredEntries(Tail(tables))

\* C6: a chunk whose entry is absent or was rejected by the validation is a
\* gap; reading a sector of it fails (the entry stored at the next position
\* does not answer for it).
C6_RejectedEntryIsGap ==
    (parseResult = "ok" /\ pc = "idle" /\ last.op = "ReadSector") =>
        LET stored == StoredEntries(Tables)
            gap    == \/ LastChunk >= Len(stored)
                      \/ ~isValidTableEntry(stored[LastChunk + 1], file.size)
        IN  gap => last.err

\* C7: after a successful Parse the chunk index has as many entries as the
\* volume section declares chunks.
C7_IndexLengthIsChunkCount ==
    (parseResult = "ok" /\ pc = "idle") =>
        Len(ConcatEntries(Tables)) = DiskInfo.ChunkCount

\* C8: Parse terminates whatever the next_offset values of the sections are,
\* and it hands no offset to ReadSection twice.
C8_ParseTerminatesWithoutRepeats ==
    /\ [](\A i, j \in DOMAIN readLog : i # j => readLog[i] # readLog[j])
    /\ [](pc \in {"loop", "check"} => <>(pc \notin {"loop", "check"}))

\* A Parse has ended on a file with a cycle: every read succeeded, and the
\* section read last links back to a section read before it.
C8_Witness ==
    /\ pc = "idle"
    /\ parseResult # "none"
    /\ Len(readLog) > 1
    /\ Len(Sections) = Len(readLog)
    /\ Sections[Len(Sections)] = lastOffset
    /\ section.next \in processedOffsets
    /\ section.next < lastOffset

\* The sections of the file linked from offset `offset` on by next_offset
\* values that point forward to a descriptor of the file.
RECURSIVE ChainFrom(_)
ChainFrom(offset) ==
    IF offset \notin DOMAIN file.sec THEN <<>>
    ELSE LET next == file.sec[offset].next
         IN  <<offset>> \o (IF next > offset /\ next \in DOMAIN file.sec
                            THEN ChainFrom(next) ELSE <<>>)

SectionChain == ChainFrom(FileHeaderLength)

\* The chain holds no done section and its final section links past the end.
ChainTruncated ==
    /\ SectionChain # <<>>
    /\ \A i \in DOMAIN SectionChain : file.sec[SectionChain[i]].type # "done"
    /\ file.sec[SectionChain[Len(SectionChain)]].next > file.size

\* C9: opening a segment whose section chain holds no done section and whose
\* final section has a next_offset greater than the segment size fails.
C9_TruncatedChainFails ==
    (pc = "idle" /\ parses > 0 /\ ChainTruncated) => parseResult = "err"

\* Initialize has failed on such a segment after the scanner reached the
\* final section of the chain.
C9_Witness ==
    /\ pc = "idle"
    /\ caller = "Initialize"
    /\ ChainTruncated
    /\ parseResult = "err"
    /\ Len(readLog) > 1
    /\ readLog[Len(readLog)] = SectionChain[Len(SectionChain)]

\* C10: when the next_offset of the section Parse read last is lower than the
\* section's own offset (0, the value that ends a chain, set aside), or is an
\* offset visited before other than its own, Parse returns an error.
C10_BackwardJumpAborts ==
    (pc = "idle" /\ caller = "Initialize" /\ parseResult # "none"
        /\ Len(Sections) > 0 /\ Sections[Len(Sections)] = lastOffset
        /\ (\/ (section.next > 0 /\ section.next < lastOffset)
            \/ (section.next \in processedOffsets /\ section.next # lastOffset)))
    => parseResult = "err"

\* C11: whatever ReadSector, ReadSectors and ReadBytes calls are made one at
\* a time, the chunk cache never holds more than MaxCacheSize chunks.
C11_CacheBounded == Cardinality(DOMAIN chunkCache) <= MaxCacheSize

\* A ReadBytes call that spans two chunks succeeded and left a full cache
\* without the first chunk it read: the insertion of a later chunk evicted it.
C11_Witness ==
    /\ ~DiskInfo.nil
    /\ last.op = "ReadBytes"
    /\ ~last.err
    /\ last.b > 0
    /\ Cardinality(DOMAIN chunkCache) = MaxCacheSize
    /\ LET firstChunk == (last.a \div DiskInfo.SectorBytes) \div DiskInfo.ChunkSectors
           lastChunk  == ((last.a + last.b - 1) \div DiskInfo.SectorBytes)
                             \div DiskInfo.ChunkSectors
       IN  /\ firstChunk < lastChunk
           /\ firstChunk \notin DOMAIN chunkCache
           /\ lastChunk \in DOMAIN chunkCache

\* C12: a chunk inserted into a full cache evicts the least recently used
\* chunk, the one whose last read is the oldest.
C12_EvictsLeastRecentlyUsed == run.victim = run.oldest

\* C13: on one trace of chunk accesses, the cache with more room never reads
\* the file more often than the cache with less room.
C13_MoreCapacityNoMoreReads == run.readsBig <= run.readsSmall

\* C14: with several goroutines in ReadSector, no goroutine is inside
\* addToCache while another one is inside addToCache or inside the cache lookup.
C14_CacheUpdatesExclusive ==
    \A i, h \in Goroutines :
        i # h => ~(InAddToCache(i) /\ (InAddToCache(h) \/ InLookup(h)))

\* The sector a ReadSector call of goroutine i has to return when it reads
\* its chunk from the file.
OwnSector(i) ==
    extractSectorFromChunk(GetChunk(GoEntry(i)).data, conc.g[i].n % DiskInfo.ChunkSectors).data

\* C15: with several goroutines in ReadSector, the read of a GetChunk call
\* happens at the position this call sought, under e.fileMutex, and a call
\* that read its chunk from the file returns the bytes of its own chunk.
C15_ChunkReadsNotInterleaved ==
    \A i \in Goroutines :
        /\ conc.g[i].pc = "read" =>
              (conc.fileMutex = i /\ conc.pos = ChunkSeekPosition(GoEntry(i)))
        /\ (conc.g[i].pc = "done" /\ ~conc.g[i].hit /\ ~conc.g[i].err) =>
              conc.g[i].data = OwnSector(i)

\* Two goroutines have read different chunks from the file, the second one
\* while the first had not returned yet.
C15_Witness ==
    \E i, h \in Goroutines :
        /\ i # h
        /\ conc.g[i].pc = "done" /\ ~conc.g[i].hit /\ ~conc.g[i].err
        /\ conc.g[h].pc = "done" /\ ~conc.g[h].hit /\ ~conc.g[h].err
        /\ GoChunk(i) # GoChunk(h)
        /\ conc.g[i].data # conc.g[h].data

\* C16: after a successful Initialize and a Close, another Close returns no
\* error (and leaves the image as it is).
C16_DoubleCloseNoOp ==
    (initialized /\ last.op = "Close" /\ last.a = 1) => (~last.err /\ fh = "closed")

\* C19: every boot sector with the OEM string "NTFS    " at offset 3 is
\* detected as NTFS by DetectFileSystem, with or without the 0x55 0xAA
\* signature at its end, in sector 0 or at the start of a partition.
C19_NtfsOemDetected ==
    (/\ probe.op = "DetectFileSystem"
     /\ DetectedSector(probe.in.disk).oem = "NTFS    ")
        => (~probe.out.err /\ probe.out.type = "NTFS")

\* C17: when the filesystem lies in a partition of a master boot record that
\* starts at sector L > 0, the filesystem CreateFileSystem returns took its
\* boot sector from sector L and addresses the volume relative to L; it did
\* not parse sector 0 as the boot sector.
C17_BootSectorOfPartition ==
    (/\ probe.op = "CreateFileSystem"
     /\ ~probe.out.err
     /\ PartitionStart(probe.in.disk) > 0)
        => LET L    == PartitionStart(probe.in.disk)
               boot == probe.in.disk.sectors[L + 1]
               fs   == probe.out.fs
           IN  /\ fs.boot = L
               /\ fs.type = "FAT32"
                     => /\ fs.bytesPerSector = boot.bytesPerSector
                        /\ fs.fatStartSector = L + boot.reservedSectors

\* The paths of Paths that differ from path in the case of letters only.
SameButCase(path) ==
    {q \in Paths : Len(q) = Len(path) /\ \A i \in 1..Len(q) : EqualFold(q[i], path[i])}

\* C18: FAT32 GetFileByPath matches every component of the path, the final
\* file name included, without regard to case: paths that differ in case only
\* name the same file, or fail alike.
C18_PathCaseInsensitive ==
    probe.op = "GetFileByPath"
        => \A q \in SameButCase(probe.in.path) :
               GetFileByPath(probe.in.root, q) = probe.out

\* C20: EXT2/3 ReadAll returns exactly inode.Size bytes, the file's bytes
\* reached through the direct, single, double and triple indirect pointers,
\* or an error; it never succeeds with fewer bytes.
C20_ReadAllWholeFile ==
    (probe.op = "ReadAll" /\ ~probe.out.err)
        => probe.out.data = [o \in 1..probe.in.inode.Size |-> o - 1]

\* C21: a table entry whose chunk offset is 0 (the first entry of the first
\* table) is accepted as a valid index entry: Parse keeps it as entry 0 of the
\* table, and a ReadSector that has to read chunk 0 reads it with that entry.
C21_ZeroOffsetEntryAccepted ==
    (/\ parseResult = "ok"
     /\ pc = "idle"
     /\ Tables # <<>>
     /\ file.tab[Tables[1].at].raw # <<>>
     /\ file.tab[Tables[1].at].raw[1].ChunkOffset = 0)
        => LET stored == file.tab[Tables[1].at].raw[1] IN
           /\ Tables[1].Entries # <<>>
           /\ Tables[1].Entries[1] = stored
           /\ (last.op = "ReadSector" /\ LastChunk = 0 /\ ~last.hit)
                 => (~last.err /\ last.ti = 1)

\* C22: the scanner rejects every section whose section_size is lower than
\* 76: no such section is accepted into the section list, and Parse never
\* computes section_size - 76 for one (which stops the program in the
\* allocation of the body).
C22_SmallSectionRejected ==
    /\ pc # "panic"
    /\ \A i \in DOMAIN Sections : file.sec[Sections[i]].size >= SectionLength

\* C26: on a parsed image, ReadBytes(offset, 0) returns an empty result
\* without error and without reading any sector for every offset inside the
\* disk, offset 0 included.  Called with an empty cache, a ReadBytes that
\* reads a sector leaves its chunk in the cache.
C26_EmptyReadBytes ==
    (~DiskInfo.nil /\ pc = "idle") =>
        \A offset \in 0..Min(MaxSector, DiskInfo.SectorsCount * DiskInfo.SectorBytes - 1) :
            \A o \in ReadBytes(<<>>, offset, 0) :
                ~o.err /\ o.data = <<>> /\ o.cache = <<>>

\* C27: the first data sector NewFAT32FileSystem computes is
\* reserved_sectors + number_of_FATs * sectors_per_FAT, whatever 32-bit value
\* sectors_per_FAT has: the product is not cut to 8 bits.
C27_DataStartSector ==
    (/\ probe.op = "CreateFileSystem"
     /\ ~probe.out.err
     /\ probe.out.fs.type = "FAT32")
        => probe.out.fs.dataStartSector
               = probe.out.fs.reservedSectors
                 + probe.out.fs.numberOfFATs * probe.out.fs.sectorsPerFAT

\* C30: internal ReadSections terminates on every segment file, also on a
\* chain whose last section is not of type done and links to itself or to an
\* earlier section; the section list holds no section twice.
C30_ReadSectionsTerminates ==
    /\ [](internal.pc = "loop" => <>(internal.pc = "idle"))
    /\ [](internal.pc # "none" =>
             \A i, j \in DOMAIN internal.Sections :
                 i # j => internal.Sections[i] # internal.Sections[j])

\* C25: enumerating or searching an EXT directory terminates for every
\* directory content, also one with a record whose rec_len is 0: every round
\* of the scan moves the offset forward or ends the operation.
C25_ExtDirectoryScanTerminates ==
    /\ [](extscan.pc \in {"list", "find"} => <>(extscan.pc = "idle"))
    /\ [][(extscan.pc \in {"list", "find"} /\ extscan'.pc = extscan.pc)
             => extscan'.offset > extscan.offset]_vars

\* C23: in a FAT32 directory listing, no entry stored after the first entry
\* whose first byte is 0x00 is returned by GetEntries, entries in later
\* clusters of the chain included.
C23_ListingEndsAtZeroEntry ==
    (/\ fat.pc = "idle"
     /\ fat.out.done
     /\ ~fat.out.err
     /\ ~fat.failed
     /\ fat.vol.endAt > 0)
        => \A i \in DOMAIN fat.out.list : fat.out.list[i] < fat.vol.endAt

\* The listing of a directory all of whose clusters can be read.
RECURSIVE CompleteListing(_, _)
CompleteListing(vol, chain) ==
    IF chain = <<>> THEN <<>>
    ELSE ClusterEntries(ReadClusterSectors([vol EXCEPT !.lost = 0], Head(chain)).data)
             \o CompleteListing(vol, Tail(chain))

\* C28: after a GetEntries of a FAT32 directory that failed because a cluster
\* could not be read, a later GetEntries on the same object fails again or
\* returns the complete listing, never the partial one without an error.
C28_FailedListingNotCached ==
    (/\ fat.pc = "idle"
     /\ fat.out.done
     /\ fat.failed
     /\ ~fat.out.err)
        => fat.out.list = CompleteListing(fat.vol, fat.chain)

\* C24: on a FAT32 volume ReadAll and ReadAt, once called, return, whatever
\* the sectors per cluster and the content of the file allocation table,
\* cyclic chains and zero sectors per cluster included.
C24_FatReadsTerminate ==
    [](fat.pc \in {"skip", "read", "Read", "ReadLoop"} => <>(fat.pc = "idle"))

\* C29: ReadAt(p, off) with 0 <= off < s on a FAT32 file of size s returns
\* n <= s - off units, equal to the units off .. off+n-1 of what ReadAll
\* returns; it never returns units stored after the end of the file.
C29_ReadAtWithinFile ==
    (/\ fat.pc = "idle"
     /\ fat.out.done
     /\ fat.all.done
     /\ fat.off >= 0
     /\ fat.off < fat.size)
        => /\ fat.out.n <= fat.size - fat.off
           /\ fat.out.data = SubSeq(fat.all.data, fat.off + 1, fat.off + fat.out.n)

====
